---- MODULE Spec2Model ----
(***************************************************************************)
(* Model of the Playwright test framework ntdinh/Poc-Playwright:           *)
(*   - the fluent step-queue builders (LoginFormComponent,                 *)
(*     MyInfoFormComponent) running on the page objects,                   *)
(*   - the retry wrapper of BasePage.click / BasePage.fill,                *)
(*   - the NetworkMock route-interception helper,                          *)
(*   - the login assertions and LoginPage.getErrorMessage,                 *)
(*   - the fluent entry points (FluentLoginPage, FluentMyInfoPage),        *)
(*   - the environment configuration,                                      *)
(*   - the authenticatedPage fixture,                                      *)
(*   - Helpers.waitForCondition.                                           *)
(* Each subsystem has its own specification over the shared variables;    *)
(* the variables of the other subsystems stay at their initial values.    *)
(***************************************************************************)
EXTENDS Integers, Sequences, FiniteSets, TLC

VARIABLES
    \* ---- fluent builder (one builder instance obtained from form()) ----
    builder,    \* "login" (LoginFormComponent) or "myinfo" (MyInfoFormComponent)
    steps,      \* the builder's private steps array
    chained,    \* number of builder-method calls made so far (history)
    pc,         \* position of the terminal call: idle, loop, step, finish
    method,     \* terminal method being run: perform, submit, save
    ip,         \* index into steps of the for..of loop
    sub,        \* index of the primitive being awaited inside the step / finish
    attempt,    \* attempt number of withRetry for the current primitive
    result,     \* outcome of the last terminal call: none, returned, threw
    thrown,     \* the error the last terminal call rejected with
    calls,      \* number of terminal calls started (history)
    invoked,    \* per step index, how many times the Action was invoked (history)
    fields,     \* the UI: current value of each input
    trace,      \* events of the current terminal call, in order (history)
    stepErr,    \* the error with which the failing step rejected (history)
    \* ---- one call of BasePage.click / BasePage.fill ----
    rop,        \* "click" or "fill"
    clearOpt,   \* fill: options.clear !== false
    retryCount, \* options.retryCount ?? defaultRetryCount
    rpc,        \* loop, wait, clear, act, backoff, returned, threw
    rattempt,   \* withRetry's loop variable attempt
    lastError,  \* withRetry's lastError
    rthrown,    \* the error that reached the caller of click / fill
    rlog,       \* attempts and backoff pauses, in order (history)
    rerrs,      \* the error raised by each failed attempt, in order (history)
    rfield,     \* content of the input being filled: old, empty or text
    rdriver,    \* the calls made on the locator and their outcome (history)
    \* ---- NetworkMock on one page ----
    routes,       \* the page's registered routes, oldest first
    nextId,       \* identity of the next handler closure registered (history)
    callCount,    \* per handler closure, its captured counter (let callCount)
    activeRoutes, \* per NetworkMock instance, its activeRoutes array
    requests,     \* the requests sent by the page, in arrival order
    registered,   \* every rule registered so far, by closure identity (history)
    removed,      \* the closures unrouted so far and the call that did it (history)
    \* ---- one call of a login assertion / getErrorMessage / isVisible ----
    assertion,    \* the call, the error indicator in the DOM, and what was done
    \* ---- a test using a fluent entry point ----
    entry,        \* the entry point, the objects obtained from it, the browser
    \* ---- environment configuration ----
    config,       \* process.env at module load and the values read from config
    \* ---- the authenticatedPage fixture ----
    fixture,      \* position of the fixture and what it has done
    \* ---- one call of Helpers.waitForCondition ----
    waiter        \* the call's arguments, the clock, and what it has done

bvars == <<builder, steps, chained, pc, method, ip, sub, attempt, result,
           thrown, calls, invoked, fields, trace, stepErr>>

rvars == <<rop, clearOpt, retryCount, rpc, rattempt, lastError, rthrown,
           rlog, rerrs, rfield, rdriver>>

mvars == <<routes, nextId, callCount, activeRoutes, requests, registered,
           removed>>

vars == <<bvars, rvars, mvars, assertion, entry, config, fixture, waiter>>

\* What an action of one subsystem leaves alone: the other subsystems.
notBuilder == <<rvars, mvars, assertion, entry, config, fixture, waiter>>
notRetry == <<bvars, mvars, assertion, entry, config, fixture, waiter>>
notMock == <<bvars, rvars, assertion, entry, config, fixture, waiter>>
notAssertion == <<bvars, rvars, mvars, entry, config, fixture, waiter>>
notEntry == <<bvars, rvars, mvars, assertion, config, fixture, waiter>>
notConfig == <<bvars, rvars, mvars, assertion, entry, fixture, waiter>>
notFixture == <<bvars, rvars, mvars, assertion, entry, config, waiter>>
notWaiter == <<bvars, rvars, mvars, assertion, entry, config, fixture>>

(***************************************************************************)
(* Bounds of the model.                                                    *)
(***************************************************************************)
MaxQueue == 3
MaxCalls == 2
MaxRetry == 3
MaxRoutes == 2
MaxRequests == 2
MaxSeqRequests == 3
MaxResponses == 2

Values == {"a", "b"}
FullNames == {<<"a", "b", "a">>, <<"b", "a", "b">>}

(***************************************************************************)
(* BasePage: defaults.                                                     *)
(***************************************************************************)
defaultRetryCount == 2

NoError == [op |-> "none", target |-> "none", attempt |-> 0, why |-> "none"]

Err(p, n, why) == [op |-> p.op, target |-> p.target, attempt |-> n, why |-> why]

\* A primitive awaited by a page-object method.
Fill(target, val) == [op |-> "fill", target |-> target, val |-> val]
Click(target) == [op |-> "click", target |-> target, val |-> ""]
LoadState == [op |-> "waitForLoadState", target |-> "page", val |-> ""]

Inputs == {"usernameInput", "passwordInput",
           "firstNameInput", "middleNameInput", "lastNameInput"}

(***************************************************************************)
(* The builders.  A queued Action is kept as the closure's captured data:  *)
(* the builder method that made it and its arguments.                      *)
(***************************************************************************)
Step(kind, args) == [kind |-> kind, args |-> args]

LoginKinds == {"withUsername", "withPassword", "clickForgotPassword"}
MyInfoKinds == {"withFirstName", "withMiddleName", "withLastName", "withFullName"}

\* The arguments a builder method can be called with.
ArgsOf(kind) ==
    CASE kind = "clickForgotPassword" -> {<<>>}
      [] kind = "withFullName" -> FullNames
      [] OTHER -> {<<v>> : v \in Values}

KindsOf(b) == IF b = "login" THEN LoginKinds ELSE MyInfoKinds

\* What the Action does when invoked: the primitives it awaits, in order.
BodySwapped(step) ==
    CASE step.kind = "withUsername" -> <<Fill("usernameInput", step.args[1])>>
      [] step.kind = "withPassword" -> <<Fill("passwordInput", step.args[1])>>
      [] step.kind = "clickForgotPassword" -> <<Click("forgotPasswordLink")>>
      [] step.kind = "withFirstName" -> <<Fill("firstNameInput", step.args[1])>>
      [] step.kind = "withMiddleName" -> <<Fill("middleNameInput", step.args[1])>>
      [] step.kind = "withLastName" -> <<Fill("lastNameInput", step.args[1])>>
      [] step.kind = "withFullName" ->
            <<Fill("middleNameInput", step.args[2]),
              Fill("firstNameInput", step.args[1]),
              Fill("lastNameInput", step.args[3])>>

Body(step) ==
    CASE step.kind = "withUsername" -> <<Fill("usernameInput", step.args[1])>>
      [] step.kind = "withPassword" -> <<Fill("passwordInput", step.args[1])>>
      [] step.kind = "clickForgotPassword" -> <<Click("forgotPasswordLink")>>
      [] step.kind = "withFirstName" -> <<Fill("firstNameInput", step.args[1])>>
      [] step.kind = "withMiddleName" -> <<Fill("middleNameInput", step.args[1])>>
      [] step.kind = "withLastName" -> <<Fill("lastNameInput", step.args[1])>>
      [] step.kind = "withFullName" ->
            <<Fill("firstNameInput", step.args[1]),
              Fill("middleNameInput", step.args[2]),
              Fill("lastNameInput", step.args[3])>>

\* The fixed finishing action of a terminal method.
FinishBodyFillsAll(m) ==
    CASE m = "perform" -> <<>>
      [] m = "submit" -> <<Fill("usernameInput", ""), Fill("passwordInput", ""),
                           Click("loginButton")>>
      [] m = "save" -> <<Click("saveButton"), LoadState>>

FinishBody(m) ==
    CASE m = "perform" -> <<>>
      [] m = "submit" -> <<Click("loginButton")>>
      [] m = "save" -> <<Click("saveButton"), LoadState>>

MethodsOf(b) == IF b = "login" THEN {"perform", "submit"} ELSE {"save"}

\* Events of the trace.  step = 0 marks the finishing action.
Ev(ev, i, target, val) == [ev |-> ev, step |-> i, target |-> target, val |-> val]

(***************************************************************************)
(* Initial state: a fresh builder returned by form().                      *)
(***************************************************************************)
RetryIdle ==
    /\ rop = "none"
    /\ clearOpt = TRUE
    /\ retryCount = defaultRetryCount
    /\ rpc = "idle"
    /\ rattempt = 0
    /\ lastError = NoError
    /\ rthrown = NoError
    /\ rlog = <<>>
    /\ rerrs = <<>>
    /\ rfield = "old"
    /\ rdriver = <<>>

\* The subsystems added after the builder, the retry wrapper and the mock,
\* when they are not the one being run.
AssertionIdle == assertion = [pc |-> "idle"]
EntryIdle == entry = [pc |-> "idle"]
ConfigIdle == config = [pc |-> "idle"]
FixtureIdle == fixture = [pc |-> "idle"]
WaiterIdle == waiter = [pc |-> "idle"]

Mocks == {"m1"}

MockIdle ==
    /\ routes = <<>>
    /\ nextId = 1
    /\ callCount = <<>>
    /\ activeRoutes = [m \in Mocks |-> <<>>]
    /\ requests = <<>>
    /\ registered = <<>>
    /\ removed = {}

InitBuilder ==
    /\ RetryIdle
    /\ MockIdle
    /\ AssertionIdle /\ EntryIdle /\ ConfigIdle /\ FixtureIdle /\ WaiterIdle
    /\ builder \in {"login", "myinfo"}
    /\ steps = <<>>
    /\ chained = 0
    /\ pc = "idle"
    /\ method = "none"
    /\ ip = 0
    /\ sub = 0
    /\ attempt = 0
    /\ result = "none"
    /\ thrown = NoError
    /\ calls = 0
    /\ invoked = <<>>
    /\ fields = [f \in Inputs |-> ""]
    /\ trace = <<>>
    /\ stepErr = NoError

(***************************************************************************)
(* withUsername / withPassword / clickForgotPassword / withFirstName /     *)
(* withMiddleName / withLastName / withFullName: push one closure, return  *)
(* this.  The chain is built before the terminal call is made.             *)
(***************************************************************************)
PushedTriple(q, kind, args) ==
    IF kind = "withFullName"
    THEN q \o <<Step("withFirstName", <<args[1]>>),
                Step("withMiddleName", <<args[2]>>),
                Step("withLastName", <<args[3]>>)>>
    ELSE Append(q, Step(kind, args))

Pushed(q, kind, args) == Append(q, Step(kind, args))

With(kind, args) ==
    /\ pc = "idle"
    /\ calls = 0
    /\ kind \in KindsOf(builder)
    /\ chained < MaxQueue
    /\ steps' = Pushed(steps, kind, args)
    /\ chained' = chained + 1
    /\ invoked' = [i \in 1..Len(steps') |-> 0]
    /\ UNCHANGED <<builder, pc, method, ip, sub, attempt, result, thrown,
                   calls, fields, trace, stepErr>>
    /\ UNCHANGED notBuilder

(***************************************************************************)
(* perform() / submit() / save(): the terminal call starts its for..of     *)
(* loop over this.steps.                                                   *)
(***************************************************************************)
Call(m) ==
    /\ pc = "idle"
    /\ calls < MaxCalls
    /\ result # "threw"   \* a rejected terminal call fails the test
    /\ m \in MethodsOf(builder)
    /\ pc' = "loop"
    /\ method' = m
    /\ ip' = 1
    /\ sub' = 0
    /\ attempt' = 0
    /\ result' = "none"
    /\ thrown' = NoError
    /\ stepErr' = NoError
    /\ calls' = calls + 1
    /\ trace' = <<>>
    /\ UNCHANGED <<builder, steps, chained, invoked, fields>>
    /\ UNCHANGED notBuilder

\* The for..of loop over this.steps is over.
LoopDoneEarly(i, q) == i >= Len(q)

LoopDone(i, q) == i > Len(q)

\* One iteration test of `for (const step of this.steps)`.
LoopNext ==
    /\ pc = "loop"
    /\ IF ~LoopDone(ip, steps)
       THEN \* step(): the Action is invoked
            /\ pc' = "step"
            /\ sub' = 1
            /\ attempt' = 1
            /\ invoked' = [invoked EXCEPT ![ip] = @ + 1]
            /\ trace' = Append(trace, Ev("invoke", ip, "", ""))
            /\ UNCHANGED <<method, ip, result>>
       ELSE \* the loop is over: perform() returns, submit()/save() finish
            /\ IF FinishBody(method) = <<>>
               THEN /\ pc' = "idle"
                    /\ result' = "returned"
                    /\ sub' = 0
                    /\ attempt' = 0
                    /\ trace' = Append(trace, Ev("resolve", 0, "", ""))
               ELSE /\ pc' = "finish"
                    /\ sub' = 1
                    /\ attempt' = 1
                    /\ result' = result
                    /\ trace' = Append(trace, Ev("finish", 0, "", ""))
            /\ UNCHANGED <<method, ip, invoked>>
    /\ UNCHANGED <<builder, steps, chained, thrown, calls, fields, stepErr>>
    /\ UNCHANGED notBuilder

\* The primitive the terminal call is awaiting.
Current ==
    IF pc = "step" THEN Body(steps[ip])[sub] ELSE FinishBody(method)[sub]

CurrentLen ==
    IF pc = "step" THEN Len(Body(steps[ip])) ELSE Len(FinishBody(method))

Owner == IF pc = "step" THEN ip ELSE 0

\* BasePage.withRetry: the attempt that failed was the last allowed one.
Exhausted(n, count) == n = count

\* Outcomes of one attempt of a primitive.
Outcomes(p) ==
    CASE p.op = "fill" -> {"ok", "notVisible", "fillFailed"}
      [] p.op = "click" -> {"ok", "notVisible"}
      [] OTHER -> {"ok", "timeout"}

\* The trace records a primitive when it completes (its attempt succeeded);
\* what a failed attempt leaves behind shows in fields.
Effects(p, out, i) ==
    IF out = "ok" THEN <<Ev(p.op, i, p.target, p.val)>> ELSE <<>>

FieldsAfter(p, out) ==
    CASE p.op = "fill" /\ out = "ok" -> [fields EXCEPT ![p.target] = p.val]
      [] p.op = "fill" /\ out = "fillFailed" -> [fields EXCEPT ![p.target] = ""]
      [] OTHER -> fields

\* The terminal call rejects: the position after a throw out of the loop.
PcAfterThrowContinue == IF pc = "step" THEN "loop" ELSE "idle"

PcAfterThrow == "idle"

\* One attempt (wait for visible, then act) of the awaited primitive, made by
\* BasePage.fill / BasePage.click under withRetry with defaultRetryCount;
\* waitForLoadState is awaited once, without retry.
Attempt(out) ==
    /\ pc \in {"step", "finish"}
    /\ out \in Outcomes(Current)
    /\ fields' = FieldsAfter(Current, out)
    /\ IF out = "ok"
       THEN IF sub < CurrentLen
            THEN \* the next await of the same Action / finishing action
                 /\ sub' = sub + 1
                 /\ attempt' = 1
                 /\ trace' = trace \o Effects(Current, out, Owner)
                 /\ UNCHANGED <<pc, ip, result, thrown, stepErr>>
            ELSE IF pc = "step"
                 THEN \* the Action's promise resolves: next loop iteration
                      /\ pc' = "loop"
                      /\ ip' = ip + 1
                      /\ sub' = 0
                      /\ attempt' = 0
                      /\ trace' = (trace \o Effects(Current, out, Owner))
                                    \o <<Ev("return", ip, "", "")>>
                      /\ UNCHANGED <<result, thrown, stepErr>>
                 ELSE \* the finishing action is done: the terminal call resolves
                      /\ pc' = "idle"
                      /\ result' = "returned"
                      /\ sub' = 0
                      /\ attempt' = 0
                      /\ trace' = (trace \o Effects(Current, out, Owner))
                                    \o <<Ev("resolve", 0, "", "")>>
                      /\ UNCHANGED <<ip, thrown, stepErr>>
       ELSE IF Current.op = "waitForLoadState"
               \/ Exhausted(attempt, defaultRetryCount)
            THEN \* the error propagates out of the Action and out of the loop
                 /\ pc' = PcAfterThrow
                 /\ result' = IF PcAfterThrow = "idle" THEN "threw" ELSE result
                 /\ thrown' = Err(Current, attempt, out)
                 /\ stepErr' = IF pc = "step" THEN Err(Current, attempt, out)
                                ELSE stepErr
                 /\ ip' = IF PcAfterThrow = "idle" THEN ip ELSE ip + 1
                 /\ sub' = 0
                 /\ attempt' = 0
                 /\ trace' = (trace \o Effects(Current, out, Owner))
                               \o <<Ev("reject", Owner, "", "")>>
            ELSE \* withRetry: backoff, then the next attempt
                 /\ attempt' = attempt + 1
                 /\ trace' = trace \o Effects(Current, out, Owner)
                 /\ UNCHANGED <<pc, ip, sub, result, thrown, stepErr>>
    /\ UNCHANGED <<builder, steps, chained, method, calls, invoked>>
    /\ UNCHANGED notBuilder

NextBuilder ==
    \/ \E k \in LoginKinds \cup MyInfoKinds : \E a \in ArgsOf(k) : With(k, a)
    \/ \E m \in {"perform", "submit", "save"} : Call(m)
    \/ LoopNext
    \/ \E out \in {"ok", "notVisible", "fillFailed", "timeout"} : Attempt(out)

SpecBuilder == InitBuilder /\ [][NextBuilder]_vars

(***************************************************************************)
(* BasePage.click / BasePage.fill under BasePage.withRetry, one call,      *)
(* step by step.  The caller may pass any retry count in options.          *)
(***************************************************************************)
Undefined == [op |-> "none", target |-> "none", attempt |-> 0, why |-> "undefined"]

BuilderIdle ==
    /\ builder = "login"
    /\ steps = <<>>
    /\ chained = 0
    /\ pc = "idle"
    /\ method = "none"
    /\ ip = 0
    /\ sub = 0
    /\ attempt = 0
    /\ result = "none"
    /\ thrown = NoError
    /\ calls = 0
    /\ invoked = <<>>
    /\ fields = [f \in Inputs |-> ""]
    /\ trace = <<>>
    /\ stepErr = NoError

\* click(locator, options) / fill(locator, text, options) is called:
\* withRetry starts with lastError undefined and attempt = 1.
InitRetry ==
    /\ BuilderIdle
    /\ MockIdle
    /\ AssertionIdle /\ EntryIdle /\ ConfigIdle /\ FixtureIdle /\ WaiterIdle
    /\ rop \in {"click", "fill"}
    /\ clearOpt \in (IF rop = "fill" THEN BOOLEAN ELSE {TRUE})
    /\ retryCount \in {defaultRetryCount} \cup (0..MaxRetry)
    /\ rpc = "loop"
    /\ rattempt = 1
    /\ lastError = Undefined
    /\ rthrown = NoError
    /\ rlog = <<>>
    /\ rerrs = <<>>
    /\ rfield = "old"
    /\ rdriver = <<>>

\* A call made on the locator during the current attempt, and how it ended.
Driver(call, ok) == [call |-> call, attempt |-> rattempt, ok |-> ok]

\* Where an attempt starts: the first statement of the wrapped function.
AttemptEntryActsOnRetry(n) == IF n > 1 THEN "act" ELSE "wait"

AttemptEntry(n) == "wait"

\* The for loop's test: another attempt is allowed.
LoopGuardOffByOne(n, count) == n < count

LoopGuard(n, count) == n <= count

\* for (let attempt = 1; attempt <= retryCount; attempt++): the test of the
\* loop; when it fails the code after the loop throws lastError.
RetryLoop ==
    /\ rpc = "loop"
    /\ IF LoopGuard(rattempt, retryCount)
       THEN /\ rpc' = AttemptEntry(rattempt)
            /\ rlog' = Append(rlog, "attempt")
            /\ UNCHANGED rthrown
       ELSE /\ rpc' = "threw"
            /\ rthrown' = lastError
            /\ UNCHANGED rlog
    /\ UNCHANGED <<rop, clearOpt, retryCount, rattempt, lastError, rerrs, rfield,
                   rdriver>>
    /\ UNCHANGED notRetry

\* The error a failed attempt raises: a new error object each time.
AttemptError(why) == [op |-> rop, target |-> "locator", attempt |-> rattempt, why |-> why]

\* What the catch block throws when the attempts are exhausted.
RethrownFirst(error) == IF rerrs = <<>> THEN error ELSE rerrs[1]

Rethrown(error) == error

\* catch (error): remember it; rethrow it on the last allowed attempt,
\* otherwise pause before the next attempt.
Caught(error) ==
    /\ lastError' = error
    /\ rerrs' = Append(rerrs, error)
    /\ IF Exhausted(rattempt, retryCount)
       THEN /\ rpc' = "threw"
            /\ rthrown' = Rethrown(error)
       ELSE /\ rpc' = "backoff"
            /\ UNCHANGED rthrown

\* await locator.waitFor({ state: 'visible', timeout })
WaitFor(visible) ==
    /\ rpc = "wait"
    /\ IF visible
       THEN /\ rpc' = IF rop = "fill" /\ clearOpt THEN "clear" ELSE "act"
            /\ UNCHANGED <<lastError, rerrs, rthrown>>
       ELSE Caught(AttemptError("notVisible"))
    /\ rdriver' = Append(rdriver, Driver("waitFor", visible))
    /\ UNCHANGED <<rop, clearOpt, retryCount, rattempt, rlog, rfield>>
    /\ UNCHANGED notRetry

\* fill: locator.clear(), or locator.fill('') when clear is missing or throws.
Clear(out) ==
    /\ rpc = "clear"
    /\ IF out \in {"cleared", "fallbackCleared"}
       THEN /\ rpc' = "act"
            /\ rfield' = ""
            /\ UNCHANGED <<lastError, rerrs, rthrown>>
       ELSE /\ Caught(AttemptError("clearFailed"))
            /\ UNCHANGED rfield
    /\ rdriver' = Append(rdriver, Driver("clear", out # "failed"))
    /\ UNCHANGED <<rop, clearOpt, retryCount, rattempt, rlog>>
    /\ UNCHANGED notRetry

\* await locator.click(...) / await locator.fill(text); on success withRetry
\* returns the result at once.
Act(ok) ==
    /\ rpc = "act"
    /\ IF ok
       THEN /\ rpc' = "returned"
            /\ rfield' = IF rop = "fill" THEN "text" ELSE rfield
            /\ UNCHANGED <<lastError, rerrs, rthrown>>
       ELSE /\ Caught(AttemptError("actFailed"))
            /\ UNCHANGED rfield
    /\ rdriver' = Append(rdriver, Driver(rop, ok))
    /\ UNCHANGED <<rop, clearOpt, retryCount, rattempt, rlog>>
    /\ UNCHANGED notRetry

\* attempt++ of the for loop.
IncrementStuck(n) == n

Increment(n) == n + 1

\* await this.page.waitForTimeout(250), then attempt++.
Backoff ==
    /\ rpc = "backoff"
    /\ rpc' = "loop"
    /\ rattempt' = Increment(rattempt)
    /\ rlog' = Append(rlog, "backoff")
    /\ UNCHANGED <<rop, clearOpt, retryCount, lastError, rthrown, rerrs, rfield,
                   rdriver>>
    /\ UNCHANGED notRetry

NextRetry ==
    \/ RetryLoop
    \/ \E v \in BOOLEAN : WaitFor(v)
    \/ \E out \in {"cleared", "fallbackCleared", "failed"} : Clear(out)
    \/ \E ok \in BOOLEAN : Act(ok)
    \/ Backoff

SpecRetry == InitRetry /\ [][NextRetry]_vars

(***************************************************************************)
(* NetworkMock: rules registered with page.route, the requests the page    *)
(* sends, and clear / clearAll.  A handler runs from one await to the next *)
(* without interruption; handlers of different requests interleave at      *)
(* their awaits.                                                           *)
(***************************************************************************)
Patterns == {"p1", "p2"}

\* Which URLs a pattern matches: p1 one endpoint, p2 every URL.
Matches(pattern, url) == pattern = "p2" \/ url = "u1"

\* The requests the page can send.
RequestKinds ==
    {[url |-> "u1", method |-> "POST", payload |-> "pa"],
     [url |-> "u2", method |-> "GET", payload |-> ""]}

\* Options a rule of mockApiRoute is registered with: a failing endpoint
\* with an inspection callback and a delay, and mockPost (method filter,
\* no delay, no callback).
ApiConfigs ==
    {[method |-> "", status |-> 500, delayMs |-> 100, onRequest |-> TRUE],
     [method |-> "POST", status |-> 200, delayMs |-> 0, onRequest |-> FALSE]}

\* The responses of a sequential rule: failures first, then a success
\* (MockScenarios.flakyAPI).
SeqResponses(n) == [k \in 1..n |-> IF k < n THEN 500 ELSE 200]

NoRule == [id |-> 0, pattern |-> "", owner |-> "", kind |-> "network",
           cfg |-> [method |-> "", status |-> 0, delayMs |-> 0, onRequest |-> FALSE],
           responses |-> <<>>]

Rule(id, pattern, owner, kind, cfg, responses) ==
    [id |-> id, pattern |-> pattern, owner |-> owner, kind |-> kind,
     cfg |-> cfg, responses |-> responses]

InitMock ==
    /\ BuilderIdle
    /\ RetryIdle
    /\ MockIdle
    /\ AssertionIdle /\ EntryIdle /\ ConfigIdle /\ FixtureIdle /\ WaiterIdle

\* No handler is suspended at an await.
Quiet == \A i \in 1..Len(requests) : requests[i].pc # "handler"

\* page.route(urlPattern, handler); this.activeRoutes.push(urlPattern).
\* The test registers a rule between page interactions it has awaited.
Register(rule) ==
    /\ nextId <= MaxRoutes
    /\ Quiet
    /\ routes' = Append(routes, rule)
    /\ nextId' = nextId + 1
    /\ callCount' = Append(callCount, 0)
    /\ activeRoutes' = [activeRoutes EXCEPT ![rule.owner] = Append(@, rule.pattern)]
    /\ registered' = Append(registered, rule)
    /\ UNCHANGED <<requests, removed>>
    /\ UNCHANGED notMock

\* mockGet / mockPost / mockPut / mockDelete / mockError / ... -> mockApiRoute
MockApiRoute(m, pattern, cfg) ==
    Register(Rule(nextId, pattern, m, "api", cfg, <<>>))

\* mockSequential(urlPattern, responses)
MockSequential(m, pattern, n) ==
    Register(Rule(nextId, pattern, m, "sequential", NoRule.cfg, SeqResponses(n)))

\* The routes page.unroute(urlPattern) leaves registered.
UnroutedAll(rs, pattern) == <<>>

Unrouted(rs, pattern) == SelectSeq(rs, LAMBDA r : r.pattern # pattern)

Ids(rs) == {rs[k].id : k \in 1..Len(rs)}

RemovedIds == {x.id : x \in removed}

\* clear(urlPattern): page.unroute(urlPattern), then filter activeRoutes.
ClearPattern(m, pattern) ==
    /\ routes' = Unrouted(routes, pattern)
    /\ removed' = removed \cup
                     {[id |-> c, by |-> pattern] : c \in Ids(routes) \ Ids(routes')}
    /\ activeRoutes' = [activeRoutes EXCEPT
                          ![m] = SelectSeq(@, LAMBDA q : q # pattern)]
    /\ UNCHANGED <<nextId, callCount, requests, registered>>
    /\ UNCHANGED notMock

\* clearAll(): page.unrouteAll(), then activeRoutes = [].
ClearAll(m) ==
    /\ routes' = <<>>
    /\ removed' = removed \cup {[id |-> c, by |-> "*"] : c \in Ids(routes)}
    /\ activeRoutes' = [activeRoutes EXCEPT ![m] = <<>>]
    /\ UNCHANGED <<nextId, callCount, requests, registered>>
    /\ UNCHANGED notMock

\* The route that intercepts a request: the most recently registered one
\* whose pattern matches its URL.
Matching(rs, url) == {k \in 1..Len(rs) : Matches(rs[k].pattern, url)}

Handler(rs, url) ==
    IF Matching(rs, url) = {} THEN NoRule
    ELSE rs[CHOOSE k \in Matching(rs, url) : \A j \in Matching(rs, url) : j <= k]

Min(a, b) == IF a < b THEN a ELSE b

\* mockSequential: responses[Math.min(callCount, responses.length - 1)],
\* as a 1-based response number.
SeqIndexAfterIncrement(count, n) == Min(count + 1, n - 1) + 1

SeqIndex(count, n) == Min(count, n - 1) + 1

\* String.prototype.toUpperCase on the method names in use.
ToUpperCase(str) ==
    CASE str = "get" -> "GET"
      [] str = "post" -> "POST"
      [] str = "put" -> "PUT"
      [] str = "delete" -> "DELETE"
      [] str = "patch" -> "PATCH"
      [] OTHER -> str

\* mockApiRoute: the method filter lets the request through.
FilteredNever(cfg, req) == FALSE

Filtered(cfg, req) ==
    cfg.method # "" /\ ToUpperCase(req.method) # ToUpperCase(cfg.method)

\* The awaits of a mockApiRoute handler, in the order the handler makes them.
ApiPlanDelayFirst(cfg) ==
    (IF cfg.delayMs > 0 THEN <<"delay">> ELSE <<>>)
      \o (IF cfg.onRequest THEN <<"callback">> ELSE <<>>)
      \o <<"fulfill">>

ApiPlan(cfg) ==
    (IF cfg.onRequest THEN <<"callback">> ELSE <<>>)
      \o (IF cfg.delayMs > 0 THEN <<"delay">> ELSE <<>>)
      \o <<"fulfill">>

\* The status route.fulfill is given.
FulfillStatusOk(rule, respNo) == 200

FulfillStatus(rule, respNo) ==
    IF rule.kind = "sequential" THEN rule.responses[respNo] ELSE rule.cfg.status

\* A request is sent and intercepted: the handler of the matching route runs
\* up to its first await.
ArriveBounded(kind, limit) ==
    /\ Len(requests) < limit
    /\ LET rule == Handler(routes, kind.url)
           base == [url |-> kind.url, method |-> kind.method,
                    payload |-> kind.payload, rule |-> rule,
                    known |-> Len(registered), gone |-> RemovedIds,
                    plan |-> <<>>, hist |-> <<>>, seen |-> "none",
                    respNo |-> 0, status |-> 0, pc |-> "network"]
       IN CASE rule.kind = "network" ->
                 /\ requests' = Append(requests, base)
                 /\ UNCHANGED callCount
            [] rule.kind = "api" /\ Filtered(rule.cfg, kind) ->
                 \* await route.continue(); return
                 /\ requests' = Append(requests, [base EXCEPT !.hist = <<"continue">>])
                 /\ UNCHANGED callCount
            [] rule.kind = "api" /\ ~Filtered(rule.cfg, kind) ->
                 /\ requests' = Append(requests,
                        [base EXCEPT !.plan = ApiPlan(rule.cfg), !.pc = "handler",
                                     !.seen = IF Head(ApiPlan(rule.cfg)) = "callback"
                                              THEN kind.payload ELSE "none"])
                 /\ UNCHANGED callCount
            [] rule.kind = "sequential" ->
                 /\ requests' = Append(requests,
                        [base EXCEPT !.plan = <<"fulfill">>, !.pc = "handler",
                                     !.respNo = SeqIndex(callCount[rule.id],
                                                         Len(rule.responses))])
                 /\ callCount' = [callCount EXCEPT ![rule.id] = @ + 1]
    /\ UNCHANGED <<routes, nextId, activeRoutes, registered, removed>>
    /\ UNCHANGED notMock

\* How an await of the handler can end: only the caller's onRequest callback
\* can reject.
Settled(step) == IF step = "callback" THEN {"ok", "threw"} ELSE {"ok"}

\* The await the handler of request i is suspended at settles.  Fulfilled, the
\* handler runs to its next await or to its end; rejected, the handler ends
\* there and the request is never fulfilled.
Resume(i) ==
    /\ i \in 1..Len(requests)
    /\ requests[i].pc = "handler"
    /\ LET r == requests[i]
           step == Head(r.plan)
           rest == Tail(r.plan)
       IN \E out \in Settled(step) :
             requests' = [requests EXCEPT ![i] =
                IF out = "threw"
                THEN [r EXCEPT !.plan = <<>>, !.pc = "failed"]
                ELSE [r EXCEPT !.hist = Append(r.hist, step),
                               !.plan = rest,
                               !.seen = IF rest # <<>> /\ Head(rest) = "callback"
                                        THEN r.payload ELSE r.seen,
                               !.status = IF step = "fulfill"
                                          THEN FulfillStatus(r.rule, r.respNo)
                                          ELSE r.status,
                               !.pc = IF rest = <<>> THEN "done" ELSE "handler"]]
    /\ UNCHANGED <<routes, nextId, callCount, activeRoutes, registered, removed>>
    /\ UNCHANGED notMock

Arrive(kind) == ArriveBounded(kind, MaxRequests)

NextMock ==
    \/ \E m \in Mocks, q \in Patterns, cfg \in ApiConfigs : MockApiRoute(m, q, cfg)
    \/ \E m \in Mocks, q \in Patterns : ClearPattern(m, q)
    \/ \E m \in Mocks : ClearAll(m)
    \/ \E kind \in RequestKinds : Arrive(kind)
    \/ \E i \in 1..MaxRequests : Resume(i)

SpecMock == InitMock /\ [][NextMock]_vars

(***************************************************************************)
(* Sequential rules (mockSequential, MockScenarios.flakyAPI) under         *)
(* overlapping requests.                                                   *)
(***************************************************************************)
SeqArrive(kind) == ArriveBounded(kind, MaxSeqRequests)

NextSequential ==
    \/ \E m \in Mocks, q \in Patterns, n \in 1..MaxResponses : MockSequential(m, q, n)
    \/ \E kind \in RequestKinds : SeqArrive(kind)
    \/ \E i \in 1..MaxSeqRequests : Resume(i)

SpecSequential == InitMock /\ [][NextSequential]_vars

(***************************************************************************)
(* Several NetworkMock instances on one page (each MockScenarios scenario  *)
(* constructs its own), with interceptAndLog.                              *)
(***************************************************************************)
ScenarioMocks == {"m1", "m2"}

InitActiveRoutes ==
    /\ BuilderIdle /\ RetryIdle
    /\ AssertionIdle /\ EntryIdle /\ ConfigIdle /\ FixtureIdle /\ WaiterIdle
    /\ routes = <<>>
    /\ nextId = 1
    /\ callCount = <<>>
    /\ activeRoutes = [m \in ScenarioMocks |-> <<>>]
    /\ requests = <<>>
    /\ registered = <<>>
    /\ removed = {}

\* interceptAndLog(urlPattern): page.route(pattern, handler); the method
\* does not touch this.activeRoutes.
InterceptAndLog(m, pattern) ==
    /\ nextId <= MaxRoutes
    /\ LET rule == Rule(nextId, pattern, m, "log", NoRule.cfg, <<>>)
       IN /\ routes' = Append(routes, rule)
          /\ registered' = Append(registered, rule)
    /\ nextId' = nextId + 1
    /\ callCount' = Append(callCount, 0)
    /\ UNCHANGED <<activeRoutes, requests, removed>>
    /\ UNCHANGED notMock

NextActiveRoutes ==
    \/ \E m \in ScenarioMocks, q \in Patterns, cfg \in ApiConfigs : MockApiRoute(m, q, cfg)
    \/ \E m \in ScenarioMocks, q \in Patterns, n \in 1..MaxResponses :
          MockSequential(m, q, n)
    \/ \E m \in ScenarioMocks, q \in Patterns : InterceptAndLog(m, q)
    \/ \E m \in ScenarioMocks, q \in Patterns : ClearPattern(m, q)
    \/ \E m \in ScenarioMocks : ClearAll(m)

SpecActiveRoutes == InitActiveRoutes /\ [][NextActiveRoutes]_vars

(***************************************************************************)
(* MockScenarios.concurrentRequests: one custom handler whose closure      *)
(* shares the counter requestCount among all the requests it handles.      *)
(***************************************************************************)
MaxConcurrent == 3

\* concurrentRequests(page, urlPattern): let requestCount = 0;
\* mock.mockCustom(urlPattern, handler).
ConcurrentRequests(m, pattern) ==
    /\ routes = <<>>
    /\ Register(Rule(nextId, pattern, m, "custom", NoRule.cfg, <<>>))

\* A request is intercepted: requestCount++, and the handler is suspended at
\* its random delay.  arrival is the request's number (history).
ConcurrentArrive(kind) ==
    /\ Len(requests) < MaxConcurrent
    /\ LET rule == Handler(routes, kind.url)
       IN IF rule.kind = "custom"
          THEN /\ callCount' = [callCount EXCEPT ![rule.id] = @ + 1]
               /\ requests' = Append(requests,
                      [url |-> kind.url, rule |-> rule, pc |-> "handler",
                       arrival |-> callCount[rule.id] + 1, body |-> 0])
          ELSE /\ requests' = Append(requests,
                      [url |-> kind.url, rule |-> rule, pc |-> "network",
                       arrival |-> 0, body |-> 0])
               /\ UNCHANGED callCount
    /\ UNCHANGED <<routes, nextId, activeRoutes, registered, removed>>
    /\ UNCHANGED notMock

\* The number the body is built from when the delay is over:
\* `Response ${requestCount}`.
ResponseNumber(r) == callCount[r.rule.id]

\* The delay of request i is over: route.fulfill with the body.
ConcurrentFulfill(i) ==
    /\ i \in 1..Len(requests)
    /\ requests[i].pc = "handler"
    /\ requests' = [requests EXCEPT ![i].pc = "done",
                                    ![i].body = ResponseNumber(requests[i])]
    /\ UNCHANGED <<routes, nextId, callCount, activeRoutes, registered, removed>>
    /\ UNCHANGED notMock

NextConcurrent ==
    \/ \E m \in Mocks, q \in Patterns : ConcurrentRequests(m, q)
    \/ \E kind \in RequestKinds : ConcurrentArrive(kind)
    \/ \E i \in 1..MaxConcurrent : ConcurrentFulfill(i)

SpecConcurrent == InitMock /\ [][NextConcurrent]_vars

(***************************************************************************)
(* Rules with a method filter: mockGet, mockPost, mockPut, mockDelete.     *)
(***************************************************************************)
MaxFilterRequests == 2

\* The options mockGet (here with a delay), mockPost, mockPut and mockDelete
\* hand to mockApiRoute.
MethodConfigs ==
    {[method |-> "GET", status |-> 200, delayMs |-> 100, onRequest |-> FALSE],
     [method |-> "POST", status |-> 200, delayMs |-> 0, onRequest |-> FALSE],
     [method |-> "PUT", status |-> 200, delayMs |-> 0, onRequest |-> FALSE],
     [method |-> "DELETE", status |-> 204, delayMs |-> 0, onRequest |-> FALSE]}

\* Requests to one endpoint; fetch sends a method such as patch as written.
MethodRequests ==
    {[url |-> "u1", method |-> me, payload |-> ""] : me \in {"GET", "POST", "patch"}}

MockMethod(m, pattern, cfg) == MockApiRoute(m, pattern, cfg)

FilterArrive(kind) == ArriveBounded(kind, MaxFilterRequests)

NextMethodFilter ==
    \/ \E m \in Mocks, q \in Patterns, cfg \in MethodConfigs : MockMethod(m, q, cfg)
    \/ \E kind \in MethodRequests : FilterArrive(kind)
    \/ \E i \in 1..MaxFilterRequests : Resume(i)

SpecMethodFilter == InitMock /\ [][NextMethodFilter]_vars

(***************************************************************************)
(* Properties of the step-queue builders.                                  *)
(***************************************************************************)
IsPrefix(s, t) == Len(s) <= Len(t) /\ \A k \in 1..Len(s) : s[k] = t[k]

StepEvents(tr) == SelectSeq(tr, LAMBDA e : e.ev \in {"invoke", "return"})

\* invoke 1, return 1, invoke 2, return 2, ..., invoke n, return n
ExpectedOrder(n) ==
    [k \in 1..(2 * n) |->
        IF k % 2 = 1 THEN Ev("invoke", (k + 1) \div 2, "", "")
                     ELSE Ev("return", k \div 2, "", "")]

FinishStarted == \E k \in 1..Len(trace) : trace[k].ev = "finish"

FinishPerformed ==
    \E k \in 1..Len(trace) : trace[k].step = 0 /\ trace[k].ev = "click"

\* C1: the terminal call invokes the queued actions in the order they were
\* queued, each one returning before the next is invoked, and the finishing
\* action (click Login / save) starts only after all N actions have returned;
\* a terminal call that resolved has run all of them, and submit/save has
\* then performed its finishing click.
C1_QueueOrder ==
    /\ IsPrefix(StepEvents(trace), ExpectedOrder(Len(steps)))
    /\ \A k \in 1..Len(trace) :
          trace[k].step = 0 /\ trace[k].ev # "reject" =>
             /\ StepEvents(SubSeq(trace, 1, k)) = ExpectedOrder(Len(steps))
             /\ StepEvents(trace) = ExpectedOrder(Len(steps))
    /\ (pc = "idle" /\ result = "returned") =>
          /\ StepEvents(trace) = ExpectedOrder(Len(steps))
          /\ method \in {"submit", "save"} => FinishPerformed

C1_Witness ==
    /\ pc = "idle" /\ result = "returned" /\ method = "submit"
    /\ Len(steps) = 3 /\ calls = 1
    /\ steps[1].kind = "withPassword" /\ steps[2].kind = "withUsername"

\* The inputs a step's Action fills.
TargetsOf(step) == {Body(step)[j].target : j \in 1..Len(Body(step))}

RECURSIVE ApplyPrims(_, _)
ApplyPrims(prims, f) ==
    IF prims = <<>> THEN f
    ELSE ApplyPrims(Tail(prims),
                    IF Head(prims).op = "fill"
                    THEN [f EXCEPT ![Head(prims).target] = Head(prims).val]
                    ELSE f)

RECURSIVE ApplySteps(_, _)
ApplySteps(q, f) ==
    IF q = <<>> THEN f ELSE ApplySteps(Tail(q), ApplyPrims(Body(Head(q)), f))

EmptyFields == [f \in Inputs |-> ""]

\* The inputs as they were when the current terminal call started: empty on
\* the first call, filled by the whole queue after a call that resolved.
FieldsAtCall == IF calls <= 1 THEN EmptyFields ELSE ApplySteps(steps, EmptyFields)

\* C2: when the k-th queued action fails, the terminal call is over and has
\* rejected with that same error, no action after k was invoked, the
\* finishing action was not started, and the values entered by actions
\* 1..k-1 are still in the inputs.
C2_FailFast ==
    stepErr # NoError =>
       /\ pc = "idle" /\ result = "threw"
       /\ thrown = stepErr
       /\ ip \in 1..Len(steps)
       /\ \A k \in 1..Len(trace) : trace[k].step # 0 /\ trace[k].step <= ip
       /\ ~FinishStarted /\ ~FinishPerformed
       /\ \A i \in 1..Len(steps) : i > ip => invoked[i] = calls - 1
       /\ \A f \in Inputs \ TargetsOf(steps[ip]) :
             fields[f] = ApplySteps(SubSeq(steps, 1, ip - 1), FieldsAtCall)[f]

C2_Witness ==
    /\ stepErr # NoError /\ ip = 2 /\ Len(steps) = 3 /\ calls = 1
    /\ steps[1].kind = "withUsername" /\ steps[2].kind = "withPassword"
    /\ fields["usernameInput"] = steps[1].args[1]

\* C3: a builder method only appends one entry to the queue: after a chain of
\* n calls the queue holds n entries, the n-th made by the n-th call, and until
\* the terminal call nothing has run and the inputs are untouched.
C3_OneEntryPerCall ==
    /\ Len(steps) = chained
    /\ calls = 0 =>
          /\ fields = EmptyFields
          /\ trace = <<>>
          /\ pc = "idle" /\ result = "none"
          /\ \A i \in 1..Len(invoked) : invoked[i] = 0

C3_Witness ==
    /\ calls = 0 /\ chained = 3
    /\ steps[2].kind = "withFullName" /\ steps[3].kind = "withLastName"

FullNameFills(i) ==
    <<Ev("fill", i, "firstNameInput", steps[i].args[1]),
      Ev("fill", i, "middleNameInput", steps[i].args[2]),
      Ev("fill", i, "lastNameInput", steps[i].args[3])>>

\* C4: the Action queued by withFullName runs as one unit: after it is invoked
\* the next events of the terminal call are its fills of first, middle and
\* last name, in that order, and then its return (or its rejection, which ends
\* the call); no other action's event comes in between.
C4_FullNameIndivisible ==
    \A k \in 1..Len(trace) :
       (trace[k].ev = "invoke" /\ steps[trace[k].step].kind = "withFullName") =>
          LET i == trace[k].step IN
          /\ \A j \in 1..3 :
                k + j <= Len(trace) =>
                   \/ trace[k + j] = FullNameFills(i)[j]
                   \/ /\ trace[k + j] = Ev("reject", i, "", "")
                      /\ k + j = Len(trace)
          /\ k + 4 <= Len(trace) => trace[k + 4] = Ev("return", i, "", "")

C4_Witness ==
    /\ builder = "myinfo" /\ pc = "idle" /\ result = "returned"
    /\ Len(steps) = 3
    /\ steps[1].kind = "withLastName" /\ steps[2].kind = "withFullName"
    /\ steps[3].kind = "withFirstName"

\* C5: once a terminal call has resolved, the builder's queue is empty and
\* every queued Action has been invoked exactly once.
C5_QueueDrained ==
    (pc = "idle" /\ result = "returned") =>
       /\ steps = <<>>
       /\ \A i \in 1..Len(invoked) : invoked[i] = 1

\* The clicks of the Login button made by the current terminal call.
LoginClicks ==
    SelectSeq(trace, LAMBDA x : x.ev = "click" /\ x.target = "loginButton")

\* C27: over any sequence of perform() / submit() calls on one
\* LoginFormComponent no queued Action is invoked more than once, and a
\* submit() that resolves after an earlier terminal call has invoked each
\* Action once in total and clicked the Login button once.
C27_InvokedOnceInTotal ==
    builder = "login" =>
       /\ \A i \in 1..Len(invoked) : invoked[i] <= 1
       /\ (calls = 2 /\ method = "submit" /\ pc = "idle" /\ result = "returned") =>
             /\ \A i \in 1..Len(invoked) : invoked[i] = 1
             /\ Len(LoginClicks) = 1

(***************************************************************************)
(* Properties of BasePage.withRetry under click / fill.                    *)
(***************************************************************************)
Count(log, what) == Len(SelectSeq(log, LAMBDA x : x = what))

AttemptsMade == Count(rlog, "attempt")

BackoffsMade == Count(rlog, "backoff")

\* attempt, backoff, attempt, backoff, ..., attempt
Alternates(log) ==
    \A j \in 1..Len(log) : log[j] = IF j % 2 = 1 THEN "attempt" ELSE "backoff"

RetryOver == rpc \in {"returned", "threw"}

\* C6: with a retry count R >= 1, a call that succeeds first on attempt k
\* returns after exactly k attempts, a call whose attempts all fail throws
\* after exactly R attempts, one backoff pause lies between consecutive
\* attempts, none follows the last attempt, and nothing is attempted once the
\* call is over.
C6_RetryBound ==
    retryCount >= 1 =>
       /\ Alternates(rlog)
       /\ AttemptsMade <= retryCount
       /\ \A j \in 1..Len(rerrs) : rerrs[j].attempt = j
       /\ rpc = "returned" =>
             /\ rattempt <= retryCount
             /\ AttemptsMade = rattempt
             /\ Len(rerrs) = rattempt - 1
             /\ BackoffsMade = rattempt - 1
       /\ rpc = "threw" =>
             /\ AttemptsMade = retryCount
             /\ Len(rerrs) = retryCount
             /\ BackoffsMade = retryCount - 1
       /\ RetryOver => rlog[Len(rlog)] = "attempt" /\ ~ENABLED NextRetry

C6_Witness ==
    /\ rpc = "returned" /\ retryCount = 3 /\ rattempt = 3
    /\ rerrs[1].why = "notVisible" /\ rerrs[2].why = "notVisible"

\* C7: when the attempts are exhausted the caller receives the error object the
\* last attempt raised, unchanged, and a call whose allowed attempts have all
\* failed never ends otherwise.
C7_LastErrorVerbatim ==
    /\ (rpc = "threw" /\ rerrs # <<>>) =>
          /\ rthrown = rerrs[Len(rerrs)]
          /\ rthrown.attempt = retryCount
          /\ rthrown = lastError
    /\ (retryCount >= 1 /\ Len(rerrs) = retryCount) => rpc = "threw"

C7_Witness ==
    /\ rpc = "threw" /\ retryCount = 3
    /\ rerrs[1].why = "actFailed" /\ rerrs[3].why = "notVisible"
    /\ rthrown.why = "notVisible"

\* The calls that act on the element: the click, or the clear and the fill.
ActCalls == {"click", "fill", "clear"}

\* The j-th call on the locator directly follows a successful call of the
\* same attempt.
FollowsSuccess(j) ==
    /\ j > 1
    /\ rdriver[j - 1].attempt = rdriver[j].attempt
    /\ rdriver[j - 1].ok

\* C21: in every attempt of click / fill the element is acted on only after
\* the visibility wait of that same attempt has succeeded, and every attempt,
\* a retry included, starts with the visibility wait.
C21_ActAfterWait ==
    /\ \A j \in 1..Len(rdriver) :
          LET d == rdriver[j] IN
             /\ d.call = "waitFor" <=>
                   (j = 1 \/ rdriver[j - 1].attempt = d.attempt - 1)
             /\ d.call \in ActCalls =>
                   /\ FollowsSuccess(j)
                   /\ \E i \in 1..(j - 1) :
                         /\ rdriver[i] = [call |-> "waitFor", attempt |-> d.attempt,
                                          ok |-> TRUE]
                         /\ \A k \in i..(j - 1) : rdriver[k].ok
             /\ j > 1 => rdriver[j - 1].attempt \in {d.attempt, d.attempt - 1}
    /\ rpc \in {"clear", "act"} =>
          /\ rdriver # <<>>
          /\ rdriver[Len(rdriver)].attempt = rattempt
          /\ rdriver[Len(rdriver)].ok
    /\ rfield # "old" => \E j \in 1..Len(rdriver) : rdriver[j].call = "waitFor" /\ rdriver[j].ok

\* A second attempt acts on the element after waiting again.
C21_Witness ==
    /\ rpc = "returned" /\ rop = "fill" /\ rattempt = 2
    /\ Len(rdriver) = 5
    /\ rdriver[2] = [call |-> "clear", attempt |-> 1, ok |-> FALSE]
    /\ rdriver[3] = [call |-> "waitFor", attempt |-> 2, ok |-> TRUE]
    /\ rdriver[5] = [call |-> "fill", attempt |-> 2, ok |-> TRUE]

\* Every awaited call of an attempt and every backoff pause ends.
SpecRetryFair == SpecRetry /\ WF_vars(NextRetry)

\* C22: when every invocation of the wrapped wait and act ends, withRetry
\* returns or throws, after at most retryCount invocations and, for a retry
\* count of at least one, at most retryCount - 1 backoff pauses (none for a
\* retry count of zero).
C22_Terminates ==
    /\ <>RetryOver
    /\ [](/\ AttemptsMade <= retryCount
          /\ BackoffsMade <= (IF retryCount >= 1 THEN retryCount - 1 ELSE 0)
          /\ rattempt <= retryCount + 1)

C22_Witness ==
    /\ rpc = "threw" /\ retryCount = MaxRetry
    /\ AttemptsMade = MaxRetry /\ BackoffsMade = MaxRetry - 1

\* C26: for every retry count accepted by click / fill, zero included, the
\* wait and act are attempted at least once and a failing call throws the
\* error of one of its attempts.
C26_AttemptedAtLeastOnce ==
    RetryOver =>
       /\ AttemptsMade >= 1
       /\ rpc = "threw" =>
             /\ rthrown # Undefined
             /\ \E j \in 1..Len(rerrs) : rerrs[j] = rthrown

(***************************************************************************)
(* Properties of NetworkMock.                                              *)
(***************************************************************************)
\* The requests a handler closure intercepted, in arrival order.
ServedBy(c) == SelectSeq(requests, LAMBDA r : r.rule.id = c)

\* C8: the k-th request intercepted by a sequential rule with n responses is
\* answered with response number min(k, n), also while the handlers of
\* earlier requests are still suspended: the rule's counter is read and
\* advanced once per request, so no response is given twice before the list
\* is exhausted and none is skipped.
C8_SequentialSaturates ==
    \A c \in 1..Len(registered) :
       registered[c].kind = "sequential" =>
          LET served == ServedBy(c)
              n == Len(registered[c].responses)
          IN /\ callCount[c] = Len(served)
             /\ \A k \in 1..Len(served) :
                   /\ served[k].respNo = Min(k, n)
                   /\ served[k].pc = "done" =>
                         served[k].status = registered[c].responses[Min(k, n)]

C8_Witness ==
    \E c \in 1..Len(registered) :
       /\ Len(registered[c].responses) = 2
       /\ Len(ServedBy(c)) = 3
       /\ ServedBy(c)[1].pc = "handler"
       /\ ServedBy(c)[2].pc = "handler"
       /\ ServedBy(c)[3].pc = "done"
       /\ ServedBy(c)[3].respNo = 2 /\ ServedBy(c)[3].status = 200

\* The steps of a fulfilling handler, from the rule's options.
FulfilSteps(cfg) ==
    <<>> \o (IF cfg.onRequest THEN <<"callback">> ELSE <<>>)
         \o (IF cfg.delayMs > 0 THEN <<"delay">> ELSE <<>>)
         \o <<"fulfill">>

HttpOk(status) == status >= 200 /\ status <= 299

\* A request that a mockApiRoute rule intercepted and did not let through.
Mocked(r) == r.rule.kind = "api" /\ r.hist # <<"continue">>

\* C9: for a request a fulfilling rule intercepted, the inspection callback
\* (if configured) is invoked with the payload the request was sent with and
\* completes first, then the delay (if any) elapses, then the request is
\* fulfilled, once, with the configured status, which is what the requester
\* observes; a request whose callback rejected is never fulfilled.
C9_HandlerOrder ==
    \A i \in 1..Len(requests) :
       LET r == requests[i] IN
       Mocked(r) =>
          /\ IsPrefix(r.hist, FulfilSteps(r.rule.cfg))
          /\ r.pc = "handler" => r.hist \o r.plan = FulfilSteps(r.rule.cfg)
          /\ r.pc = "done" => r.hist = FulfilSteps(r.rule.cfg)
          /\ r.pc = "failed" => r.hist = <<>> /\ r.rule.cfg.onRequest
          /\ Count(r.hist, "fulfill") <= 1
          /\ (r.pc = "done") = (Count(r.hist, "fulfill") = 1)
          /\ r.rule.cfg.onRequest => r.seen = r.payload
          /\ ~r.rule.cfg.onRequest => r.seen = "none"
          /\ r.pc = "done" =>
                /\ r.status = r.rule.cfg.status
                /\ HttpOk(r.status) = HttpOk(r.rule.cfg.status)
          /\ r.pc # "done" => r.status = 0

C9_Witness ==
    \E i \in 1..Len(requests) :
       /\ requests[i].pc = "done"
       /\ requests[i].hist = <<"callback", "delay", "fulfill">>
       /\ requests[i].status = 500 /\ ~HttpOk(requests[i].status)
       /\ requests[i].seen = "pa"

\* The rules that were registered and not yet removed when request r arrived.
LiveAt(r) ==
    SelectSeq(SubSeq(registered, 1, r.known), LAMBDA q : q.id \notin r.gone)

\* C10: clear(pattern) removes the rules registered under that pattern and
\* only those, clearAll() removes every rule; a request that arrives after
\* the removal is never handled by a removed rule and is still handled by the
\* newest remaining rule matching it; a request intercepted before the
\* removal runs its handler to the end as configured.
C10_ClearScope ==
    /\ \A x \in removed : x.by = "*" \/ x.by = registered[x.id].pattern
    /\ Ids(routes) = (1..Len(registered)) \ RemovedIds
    /\ \A i \in 1..Len(requests) :
          LET r == requests[i] IN
          /\ r.rule.id \notin r.gone
          /\ r.rule = Handler(LiveAt(r), r.url)
          /\ (Mocked(r) /\ r.rule.id \in RemovedIds) =>
                /\ r.pc \in {"handler", "done", "failed"}
                /\ r.pc = "handler" => r.hist \o r.plan = FulfilSteps(r.rule.cfg)
                /\ r.pc = "done" =>
                      /\ r.hist = FulfilSteps(r.rule.cfg)
                      /\ r.status = r.rule.cfg.status

C10_Witness ==
    /\ Len(requests) = 2
    /\ requests[1].rule.pattern = "p1" /\ requests[1].pc = "handler"
    /\ requests[1].hist = <<"callback">>
    /\ [id |-> requests[1].rule.id, by |-> "p1"] \in removed
    /\ requests[2].url = "u1" /\ requests[2].rule.pattern = "p2"
    /\ requests[2].gone = {requests[1].rule.id}
    /\ requests[2].rule.id < requests[1].rule.id

\* The patterns of the rules an instance registered that are still routed.
LivePatterns(m) == {routes[k].pattern : k \in {j \in 1..Len(routes) : routes[j].owner = m}}

\* C28: after any registrations, clear and clearAll calls on the NetworkMock
\* instances of one page, the activeRoutes list of each instance holds
\* exactly the patterns of the rules registered through it that are still
\* live on the page.
C28_ActiveRoutesExact ==
    \A m \in DOMAIN activeRoutes :
       {activeRoutes[m][k] : k \in 1..Len(activeRoutes[m])} = LivePatterns(m)

\* C29: under MockScenarios.concurrentRequests the body of every answered
\* request carries the number the request was given when it arrived, however
\* the requests and their delays overlap.
C29_ResponseCarriesArrival ==
    \A i \in 1..Len(requests) :
       (requests[i].rule.kind = "custom" /\ requests[i].pc = "done") =>
          requests[i].body = requests[i].arrival

\* C23: under a rule registered with a method filter, a request whose method
\* differs from the filter, compared without regard to case, is continued
\* unmodified: not fulfilled, no callback, no delay; a request whose method
\* matches is handled by the rule and ends fulfilled with the rule's status.
C23_MethodFilter ==
    \A i \in 1..Len(requests) :
       LET r == requests[i]
           cfg == r.rule.cfg
       IN (r.rule.kind = "api" /\ cfg.method # "") =>
             IF ToUpperCase(r.method) # ToUpperCase(cfg.method)
             THEN /\ r.hist = <<"continue">>
                  /\ r.plan = <<>>
                  /\ r.pc = "network"
                  /\ r.seen = "none"
                  /\ r.status = 0
             ELSE /\ \A k \in 1..Len(r.hist) : r.hist[k] \in {"delay", "fulfill"}
                  /\ r.pc \in {"handler", "done"}
                  /\ r.pc = "handler" => r.plan[Len(r.plan)] = "fulfill"
                  /\ r.pc = "done" =>
                        /\ r.hist[Len(r.hist)] = "fulfill"
                        /\ r.status = cfg.status
                        /\ (cfg.delayMs > 0) = (r.hist[1] = "delay")

\* A delayed mockGet rule answers a GET and lets a patch request through.
C23_Witness ==
    /\ Len(requests) = 2
    /\ requests[1].rule.cfg.method = "GET" /\ requests[1].method = "patch"
    /\ requests[1].hist = <<"continue">>
    /\ requests[2].rule = requests[1].rule /\ requests[2].method = "GET"
    /\ requests[2].hist = <<"delay", "fulfill">> /\ requests[2].status = 200

(***************************************************************************)
(* LoginAssertions.expectInvalidCredentialsError, LoginPage.getErrorMessage *)
(* and BasePage.isVisible, one call, against a page that may show one      *)
(* error indicator.  The page may render or remove the indicator at any    *)
(* moment while the call runs.                                             *)
(***************************************************************************)
MaxDomChanges == 2

\* CSS hooks an indicator element can carry.
Classes == {".oxd-alert-content-text", ".oxd-alert", "[role=alert]"}

\* Texts an indicator can show.
Texts == {"Invalid credentials", "wrong password", "Login failed", ""}

\* hasText: /Invalid|credentials|incorrect|wrong/i
HasErrorText(text) == text \in {"Invalid credentials", "wrong password"}

\* getByText(/Invalid|credentials|incorrect/i)
ByText(text) == text = "Invalid credentials"

\* LoginPage.getErrorMessage: altSelectors, in order.
altSelectors == <<".oxd-alert-content-text", ".oxd-alert", "[role=alert]", "getByText">>

\* The locators and the elements they select.
Selects(locator, el) ==
    CASE locator = "errorMessage" -> el.cls # {} /\ HasErrorText(el.text)
      [] locator = "altErrorLocator" -> el.cls # {} /\ HasErrorText(el.text)
      [] locator = "getByText" -> ByText(el.text)
      [] OTHER -> locator \in el.cls

Strategies == {"errorMessage", "altErrorLocator"} \cup
              {altSelectors[k] : k \in 1..Len(altSelectors)}

AnyStrategy(el) == \E locator \in Strategies : Selects(locator, el)

\* The locator resolves to a visible element now.
Visible(locator) == assertion.shown /\ Selects(locator, assertion.el)

AssertionOps == {"expectInvalidCredentialsError", "getErrorMessage", "isVisible"}

EntryPc(op) ==
    CASE op = "expectInvalidCredentialsError" -> "waitPrimary"
      [] op = "getErrorMessage" -> "getWait"
      [] op = "isVisible" -> "isVisible"

InitAssertion ==
    /\ BuilderIdle /\ RetryIdle /\ MockIdle
    /\ EntryIdle /\ ConfigIdle /\ FixtureIdle /\ WaiterIdle
    /\ \E op \in AssertionOps, cls \in SUBSET Classes, text \in Texts,
          shown \in BOOLEAN :
          assertion = [op |-> op, pc |-> EntryPc(op), i |-> 1,
                       el |-> [cls |-> cls, text |-> text],
                       shown |-> shown, changes |-> 0,
                       everVisible |-> shown /\ AnyStrategy([cls |-> cls, text |-> text]),
                       driverFailed |-> FALSE,
                       text |-> "none", result |-> "none",
                       error |-> NoError]

AssertionOver == assertion.pc \in {"passed", "threw", "returned"}

\* The page renders the indicator.
Render ==
    /\ assertion.pc # "idle" /\ ~AssertionOver
    /\ ~assertion.shown /\ assertion.changes < MaxDomChanges
    /\ assertion' = [assertion EXCEPT !.shown = TRUE, !.changes = @ + 1,
                        !.everVisible = @ \/ AnyStrategy(assertion.el)]
    /\ UNCHANGED notAssertion

\* The page removes the indicator.
Vanish ==
    /\ assertion.pc # "idle" /\ ~AssertionOver
    /\ assertion.shown /\ assertion.changes < MaxDomChanges
    /\ assertion' = [assertion EXCEPT !.shown = FALSE, !.changes = @ + 1]
    /\ UNCHANGED notAssertion

MatcherError(matcher, locator) ==
    [op |-> matcher, target |-> locator, attempt |-> 0, why |-> "element(s) not found"]

\* try { await this.loginPage.waitForElement(this.loginPage.errorMessage, 10000)
WaitPrimary ==
    /\ assertion.pc = "waitPrimary"
    /\ assertion' = IF Visible("errorMessage")
                    THEN [assertion EXCEPT !.pc = "expectPrimary"]
                    ELSE [assertion EXCEPT !.pc = "expectAlt", !.driverFailed = TRUE]
    /\ UNCHANGED notAssertion

\* await expect(this.loginPage.errorMessage).toBeVisible({ timeout: 10000 }) }
ExpectPrimary ==
    /\ assertion.pc = "expectPrimary"
    /\ assertion' = IF Visible("errorMessage")
                    THEN [assertion EXCEPT !.pc = "getWait"]
                    ELSE [assertion EXCEPT !.pc = "expectAlt", !.driverFailed = TRUE]
    /\ UNCHANGED notAssertion

\* What a failed toBeVisible in the catch block does to the assertion.
AltNotVisibleSwallowed(a) == [a EXCEPT !.pc = "getWait", !.driverFailed = TRUE]

AltNotVisible(a) ==
    [a EXCEPT !.pc = "threw", !.result = "threw", !.driverFailed = TRUE,
              !.error = MatcherError("toBeVisible", "altErrorLocator")]

\* catch { ... await expect(altErrorLocator).toBeVisible({ timeout: 10000 }) }
ExpectAlt ==
    /\ assertion.pc = "expectAlt"
    /\ assertion' = IF Visible("altErrorLocator")
                    THEN [assertion EXCEPT !.pc = "getWait"]
                    ELSE AltNotVisible(assertion)
    /\ UNCHANGED notAssertion

\* getErrorMessage returns text to its caller.
GetReturns(a, text) ==
    IF a.op = "getErrorMessage"
    THEN [a EXCEPT !.pc = "returned", !.result = "returned", !.text = text]
    ELSE [a EXCEPT !.pc = "check", !.text = text]

\* getErrorMessage: try { await this.waitForElement(this.errorMessage, 5000)
GetWait ==
    /\ assertion.pc = "getWait"
    /\ assertion' = IF Visible("errorMessage")
                    THEN [assertion EXCEPT !.pc = "getText"]
                    ELSE [assertion EXCEPT !.pc = "altVisible", !.i = 1,
                                           !.driverFailed = TRUE]
    /\ UNCHANGED notAssertion

\* return await this.getText(this.errorMessage) } catch (error) { ...
GetText ==
    /\ assertion.pc = "getText"
    /\ assertion' = IF Visible("errorMessage")
                    THEN GetReturns(assertion, assertion.el.text)
                    ELSE [assertion EXCEPT !.pc = "altVisible", !.i = 1,
                                           !.driverFailed = TRUE]
    /\ UNCHANGED notAssertion

\* The for loop over altSelectors moves on; after the last one: return ''.
NextAlt(a) ==
    IF a.i < Len(altSelectors)
    THEN [a EXCEPT !.pc = "altVisible", !.i = @ + 1]
    ELSE GetReturns(a, "")

\* if (await this.isVisible(selector)): isVisible turns a waitFor that timed
\* out into false.
AltVisible ==
    /\ assertion.pc = "altVisible"
    /\ assertion' = IF Visible(altSelectors[assertion.i])
                    THEN [assertion EXCEPT !.pc = "altText"]
                    ELSE NextAlt([assertion EXCEPT !.driverFailed = TRUE])
    /\ UNCHANGED notAssertion

\* const text = await this.getText(selector); if (text) return text;
\* catch (e) { continue to next selector }
AltText ==
    /\ assertion.pc = "altText"
    /\ assertion' = IF Visible(altSelectors[assertion.i])
                    THEN IF assertion.el.text # ""
                         THEN GetReturns(assertion, assertion.el.text)
                         ELSE NextAlt(assertion)
                    ELSE NextAlt([assertion EXCEPT !.driverFailed = TRUE])
    /\ UNCHANGED notAssertion

\* expect(errorText).toBeTruthy()
CheckTruthy ==
    /\ assertion.pc = "check"
    /\ assertion' = IF assertion.text # ""
                    THEN [assertion EXCEPT !.pc = "passed", !.result = "passed"]
                    ELSE [assertion EXCEPT !.pc = "threw", !.result = "threw",
                            !.error = [op |-> "toBeTruthy", target |-> "errorText",
                                       attempt |-> 0, why |-> "received ''"]]
    /\ UNCHANGED notAssertion

\* BasePage.isVisible(locator), called by a test: try { await
\* locator.waitFor({ state: 'visible', timeout: 2000 }); return true }
\* catch { return false }
IsVisible ==
    /\ assertion.pc = "isVisible"
    /\ assertion' = IF Visible(altSelectors[assertion.i])
                    THEN [assertion EXCEPT !.pc = "returned", !.result = "returned",
                                           !.text = "true"]
                    ELSE [assertion EXCEPT !.pc = "returned", !.result = "returned",
                                           !.text = "false", !.driverFailed = TRUE]
    /\ UNCHANGED notAssertion

NextAssertion ==
    \/ Render
    \/ Vanish
    \/ WaitPrimary
    \/ ExpectPrimary
    \/ ExpectAlt
    \/ GetWait
    \/ GetText
    \/ AltVisible
    \/ AltText
    \/ CheckTruthy
    \/ IsVisible

SpecAssertion == InitAssertion /\ [][NextAssertion]_vars

(***************************************************************************)
(* LoginPage.getErrorMessage on a page holding several candidate elements, *)
(* in document order.                                                      *)
(***************************************************************************)
MaxElements == 2
MaxToggles == 1

\* The candidate elements: at most one CSS hook each, any text, shown or not.
Elements ==
    [cls : {{}} \cup {{c} : c \in Classes}, text : Texts, shown : BOOLEAN]

\* The elements of the page a locator matches, by position.
MatchesOf(locator, dom) == {k \in 1..Len(dom) : Selects(locator, dom[k])}

First(S) == CHOOSE k \in S : \A j \in S : k <= j

\* The element a driver call on the locator acts on, 0 when there is none:
\* errorMessage ends in .first(); any other locator is strict, and a driver
\* call on it fails when it matches several elements.
Target(locator, dom) ==
    LET ms == MatchesOf(locator, dom)
    IN IF ms = {} THEN 0
       ELSE IF locator = "errorMessage" \/ Cardinality(ms) = 1 THEN First(ms)
       ELSE 0

\* locator.waitFor({ state: 'visible' }) resolves.
VisibleIn(locator, dom) ==
    Target(locator, dom) # 0 /\ dom[Target(locator, dom)].shown

\* (await locator.textContent()) || ''
TextContent(locator, dom) == dom[Target(locator, dom)].text

InitGetError ==
    /\ BuilderIdle /\ RetryIdle /\ MockIdle
    /\ EntryIdle /\ ConfigIdle /\ FixtureIdle /\ WaiterIdle
    /\ \E n \in 0..MaxElements : \E dom \in [1..n -> Elements] :
          assertion = [op |-> "getErrorMessage", pc |-> "getWait", i |-> 1,
                       dom |-> dom, toggles |-> 0,
                       reads |-> <<>>,
                       text |-> "none", result |-> "none", error |-> NoError]

\* The page shows or hides one of the elements while the call is running.
Toggle(k) ==
    /\ assertion.pc \notin {"idle", "returned", "threw"}
    /\ assertion.toggles < MaxToggles
    /\ k \in 1..Len(assertion.dom)
    /\ assertion' = [assertion EXCEPT !.dom[k].shown = ~@, !.toggles = @ + 1]
    /\ UNCHANGED notAssertion

\* A driver call on a locator and whether it succeeded (history).
Read(a, call, locator, ok) ==
    [a EXCEPT !.reads = Append(@, [call |-> call, locator |-> locator, ok |-> ok])]

Returns(a, text) == [a EXCEPT !.pc = "returned", !.result = "returned", !.text = text]

\* The loop over altSelectors starts with the first selector.
FirstAltLast == Len(altSelectors)

FirstAlt == 1

\* try { await this.waitForElement(this.errorMessage, 5000);
GetErrorWait ==
    /\ assertion.pc = "getWait"
    /\ LET ok == VisibleIn("errorMessage", assertion.dom)
           a == Read(assertion, "waitFor", "errorMessage", ok)
       IN assertion' = IF ok THEN [a EXCEPT !.pc = "getText"]
                       ELSE [a EXCEPT !.pc = "altVisible", !.i = FirstAlt]
    /\ UNCHANGED notAssertion

\* return await this.getText(this.errorMessage); } catch (error) { ...
GetErrorText ==
    /\ assertion.pc = "getText"
    /\ LET ok == VisibleIn("errorMessage", assertion.dom)
           a == Read(assertion, "getText", "errorMessage", ok)
       IN assertion' = IF ok THEN Returns(a, TextContent("errorMessage", assertion.dom))
                       ELSE [a EXCEPT !.pc = "altVisible", !.i = FirstAlt]
    /\ UNCHANGED notAssertion

\* for (const selector of altSelectors): the next selector, or return ''.
NextSelector(a) ==
    IF a.i < Len(altSelectors)
    THEN [a EXCEPT !.pc = "altVisible", !.i = @ + 1]
    ELSE Returns(a, "")

\* if (await this.isVisible(selector)) {
GetErrorAltVisible ==
    /\ assertion.pc = "altVisible"
    /\ LET ok == VisibleIn(altSelectors[assertion.i], assertion.dom)
           a == Read(assertion, "isVisible", altSelectors[assertion.i], ok)
       IN assertion' = IF ok THEN [a EXCEPT !.pc = "altText"] ELSE NextSelector(a)
    /\ UNCHANGED notAssertion

\* const text = await this.getText(selector); if (text) return text; }
\* catch (e) { continue to next selector }
GetErrorAltText ==
    /\ assertion.pc = "altText"
    /\ LET locator == altSelectors[assertion.i]
           ok == VisibleIn(locator, assertion.dom)
           a == Read(assertion, "getText", locator, ok)
       IN assertion' = IF ok /\ TextContent(locator, assertion.dom) # ""
                       THEN Returns(a, TextContent(locator, assertion.dom))
                       ELSE NextSelector(a)
    /\ UNCHANGED notAssertion

NextGetError ==
    \/ \E k \in 1..MaxElements : Toggle(k)
    \/ GetErrorWait
    \/ GetErrorText
    \/ GetErrorAltVisible
    \/ GetErrorAltText

SpecGetError == InitGetError /\ [][NextGetError]_vars

(***************************************************************************)
(* Properties of the login assertions and of the page-object operations    *)
(* they use.                                                               *)
(***************************************************************************)
ExpectErrorOver ==
    /\ assertion.pc # "idle"
    /\ assertion.op = "expectInvalidCredentialsError"
    /\ AssertionOver

\* C11: when the page shows, throughout the call, an error indicator that the
\* primary locator does not select and the first alternative selector does,
\* expectInvalidCredentialsError passes, having obtained the indicator's text.
C11_FallThroughSucceeds ==
    (/\ ExpectErrorOver
     /\ assertion.shown /\ assertion.changes = 0
     /\ ~Selects("errorMessage", assertion.el)
     /\ Selects(altSelectors[1], assertion.el)
     /\ assertion.el.text # "")
    => (assertion.result = "passed" /\ assertion.text = assertion.el.text)

C18_NoSilentRecovery ==
    (/\ assertion.pc # "idle"
     /\ assertion.op \in {"getErrorMessage", "isVisible"}
     /\ AssertionOver
     /\ assertion.driverFailed)
    => assertion.result = "threw"

\* The alternative selectors, by position, that are visible with text.
Qualifying(dom) ==
    {k \in 1..Len(altSelectors) :
        /\ VisibleIn(altSelectors[k], dom)
        /\ TextContent(altSelectors[k], dom) # ""}

\* What the claim says getErrorMessage returns on a page.
ExpectedMessage(dom) ==
    IF VisibleIn("errorMessage", dom) THEN TextContent("errorMessage", dom)
    ELSE IF Qualifying(dom) = {} THEN ""
    ELSE TextContent(altSelectors[First(Qualifying(dom))], dom)

\* C24: getErrorMessage never throws; on a page that does not change during
\* the call it returns the primary locator's text when that locator is
\* visible, otherwise the text of the first alternative selector, in the
\* order of altSelectors, that is visible with non-empty text, otherwise the
\* empty string.  On any page a returned text was read from a visible
\* element and the empty string is returned only after every alternative
\* was tried.
C24_NeverThrows ==
    /\ assertion.pc # "threw" /\ assertion.result # "threw"
    /\ assertion.error = NoError
    /\ assertion.pc = "returned" =>
          LET last == assertion.reads[Len(assertion.reads)]
          IN /\ assertion.toggles = 0 =>
                   assertion.text = ExpectedMessage(assertion.dom)
             /\ assertion.text # "" =>
                   /\ last.call = "getText" /\ last.ok
                   /\ assertion.text = TextContent(last.locator, assertion.dom)
             /\ assertion.text = "" =>
                   /\ last.locator = altSelectors[Len(altSelectors)]
                   /\ \A k \in 1..Len(altSelectors) :
                         \E j \in 1..Len(assertion.reads) :
                            /\ assertion.reads[j].call = "isVisible"
                            /\ assertion.reads[j].locator = altSelectors[k]

\* The first alternative is visible without text, the second has the text.
C24_Witness ==
    /\ assertion.pc = "returned" /\ assertion.toggles = 0
    /\ Len(assertion.dom) = 2
    /\ assertion.dom[1] = [cls |-> {".oxd-alert-content-text"}, text |-> "", shown |-> TRUE]
    /\ assertion.dom[2] = [cls |-> {".oxd-alert"}, text |-> "Login failed", shown |-> TRUE]
    /\ assertion.text = "Login failed"

(***************************************************************************)
(* config/environment.ts: the environments table is built from process.env *)
(* when the module is loaded; getEnvironment reads process.env at each     *)
(* call.                                                                   *)
(***************************************************************************)
MaxEnvChanges == 1

Unset == "<unset>"

\* The variables the table reads.
StagingVars == {"STAGING_ADMIN_USER", "STAGING_ADMIN_PASS",
                "STAGING_USER_USER", "STAGING_USER_PASS"}
ProdVars == {"PROD_ADMIN_USER", "PROD_ADMIN_PASS", "PROD_USER_USER", "PROD_USER_PASS"}

\* Variables a developer might set for the development environment.
DevVars == {"DEV_ADMIN_USER", "DEV_ADMIN_PASS", "DEV_USER_USER", "DEV_USER_PASS"}

OverrideVars == StagingVars \cup ProdVars \cup DevVars

\* Values of ENV and NODE_ENV, and of the other variables.
EnvNameValues == {Unset, "", "dev", "staging", "production", "test"}
NodeEnvValues == {Unset, "dev", "production", "test"}
OverrideValues == {Unset, "", "secret"}

\* JavaScript a || b on strings and undefined.
OrElse(a, b) == IF a \in {Unset, ""} THEN b ELSE a

\* getEnvironment(): process.env.ENV || process.env.NODE_ENV || 'dev'
GetEnvironmentNodeFirst(penv) == OrElse(penv["NODE_ENV"], OrElse(penv["ENV"], "dev"))

GetEnvironment(penv) == OrElse(penv["ENV"], OrElse(penv["NODE_ENV"], "dev"))

Credential(username, password) == [username |-> username, password |-> password]

\* const environments: Record<Environment, EnvironmentConfig>
Environments(penv) ==
    [name \in {"dev", "staging", "production"} |->
       CASE name = "dev" ->
              [baseURL |-> "https://opensource-demo.orangehrmlive.com",
               apiURL |-> "https://opensource-demo.orangehrmlive.com/web/index.php/api",
               timeout |-> 30000,
               credentials |-> [admin |-> Credential("Admin", "admin123"),
                                user |-> Credential("testuser", "testpass123")]]
         [] name = "staging" ->
              [baseURL |-> "https://staging.example.com",
               apiURL |-> "https://staging.example.com/api",
               timeout |-> 30000,
               credentials |->
                  [admin |-> Credential(OrElse(penv["STAGING_ADMIN_USER"], "admin"),
                                        OrElse(penv["STAGING_ADMIN_PASS"], "admin123")),
                   user |-> Credential(OrElse(penv["STAGING_USER_USER"], "user"),
                                       OrElse(penv["STAGING_USER_PASS"], "user123"))]]
         [] name = "production" ->
              [baseURL |-> "https://production.example.com",
               apiURL |-> "https://production.example.com/api",
               timeout |-> 60000,
               credentials |->
                  [admin |-> Credential(OrElse(penv["PROD_ADMIN_USER"], ""),
                                        OrElse(penv["PROD_ADMIN_PASS"], "")),
                   user |-> Credential(OrElse(penv["PROD_USER_USER"], ""),
                                       OrElse(penv["PROD_USER_PASS"], ""))]]]

NoConfig == [undefined |-> TRUE]

\* getConfig(): environments[getEnvironment()]
GetConfig(table, penv) ==
    IF GetEnvironment(penv) \in DOMAIN table
    THEN table[GetEnvironment(penv)]
    ELSE NoConfig

TypeError(fn) == [op |-> fn, target |-> "undefined", attempt |-> 0, why |-> "TypeError"]

\* An environment with at most one override variable set.
ProcessEnvs ==
    {[n \in {"ENV", "NODE_ENV"} \cup OverrideVars |->
         CASE n = "ENV" -> e
           [] n = "NODE_ENV" -> ne
           [] n = v -> val
           [] OTHER -> Unset] :
       e \in EnvNameValues, ne \in NodeEnvValues, v \in OverrideVars,
       val \in OverrideValues}

\* The module has been loaded in a process started with environment penv.
InitConfig ==
    /\ BuilderIdle /\ RetryIdle /\ MockIdle
    /\ AssertionIdle /\ EntryIdle /\ FixtureIdle /\ WaiterIdle
    /\ \E penv \in ProcessEnvs :
          config = [pc |-> "loaded", env |-> penv, loadEnv |-> penv,
                    environments |-> Environments(penv), changes |-> 0,
                    out |-> [fn |-> "none", arg |-> "", result |-> "none",
                             value |-> "none"]]

\* The test process changes one of its override variables after the load.
Setenv(name, value) ==
    /\ config.pc = "loaded"
    /\ config.changes < MaxEnvChanges
    /\ config.env[name] # value
    /\ config' = [config EXCEPT !.env[name] = value, !.changes = @ + 1]
    /\ UNCHANGED notConfig

Returned(fn, arg, value) ==
    [fn |-> fn, arg |-> arg, result |-> "returned", value |-> value]

Threw(fn, arg) ==
    [fn |-> fn, arg |-> arg, result |-> "threw", value |-> TypeError(fn)]

\* getConfig()
GetConfigCall ==
    /\ config.pc = "loaded"
    /\ config' = [config EXCEPT
          !.out = Returned("getConfig", "", GetConfig(config.environments, config.env))]
    /\ UNCHANGED notConfig

\* getBaseURL(): getConfig().baseURL
GetBaseURLCall ==
    /\ config.pc = "loaded"
    /\ LET cfg == GetConfig(config.environments, config.env)
       IN config' = [config EXCEPT
             !.out = IF cfg = NoConfig THEN Threw("getBaseURL", "")
                     ELSE Returned("getBaseURL", "", cfg.baseURL)]
    /\ UNCHANGED notConfig

\* getAPIURL(): getConfig().apiURL
GetAPIURLCall ==
    /\ config.pc = "loaded"
    /\ LET cfg == GetConfig(config.environments, config.env)
       IN config' = [config EXCEPT
             !.out = IF cfg = NoConfig THEN Threw("getAPIURL", "")
                     ELSE Returned("getAPIURL", "", cfg.apiURL)]
    /\ UNCHANGED notConfig

\* getCredentials(role): getConfig().credentials[role]
GetCredentialsCall(role) ==
    /\ config.pc = "loaded"
    /\ LET cfg == GetConfig(config.environments, config.env)
       IN config' = [config EXCEPT
             !.out = IF cfg = NoConfig THEN Threw("getCredentials", role)
                     ELSE Returned("getCredentials", role, cfg.credentials[role])]
    /\ UNCHANGED notConfig

NextConfig ==
    \/ \E name \in OverrideVars, value \in OverrideValues : Setenv(name, value)
    \/ GetConfigCall
    \/ GetBaseURLCall
    \/ GetAPIURLCall
    \/ \E role \in {"admin", "user"} : GetCredentialsCall(role)

SpecConfig == InitConfig /\ [][NextConfig]_vars

(***************************************************************************)
(* A test using the fluent entry points FluentLoginPage / FluentMyInfoPage: *)
(* start, fromAuthenticatedPage, form, assertions, the builder methods and  *)
(* the terminal calls / assertions made through the objects obtained.      *)
(***************************************************************************)
MaxEntries == 1
MaxObjects == 2
MaxWith == 1
MaxUses == 1

EntryKinds == {"login", "myinfo"}

\* What the browser can be showing when the test begins.
Screens == {"blank", "login", "dashboard", "myinfo"}

\* The awaits of navigateToLogin / navigateToMyInfo, in order.
StartPlanNoWait(kind) ==
    IF kind = "login" THEN <<"goto">> ELSE <<"click">>

StartPlan(kind) ==
    IF kind = "login" THEN <<"goto", "waitForLoadState">>
    ELSE <<"click", "waitForLoadState">>

\* The screen the browser shows once the navigation of start has succeeded.
ScreenOf(kind) == IF kind = "login" THEN "login" ELSE "myinfo"

\* Whether a navigation step can succeed from the screen shown: page.goto
\* from anywhere, the click on the My Info link only where the link is.
CanNavigate(kind, screen) == kind = "login" \/ screen \in {"dashboard", "myinfo"}

\* The screen an action made through an object needs to be showing.
Needs(kind, type) ==
    CASE kind = "login" /\ type = "form" -> "login"
      [] kind = "login" /\ type = "assertions" -> "dashboard"
      [] OTHER -> "myinfo"

\* The environments a test run is started in: nothing set, or ENV naming
\* the test run.
TestEnvs ==
    {penv \in ProcessEnvs :
        /\ penv["ENV"] \in {Unset, "test"} /\ penv["NODE_ENV"] = Unset
        /\ \A v \in OverrideVars : penv[v] = Unset}

\* new LoginPage(page) / new MyInfoPage(page): the BasePage constructor
\* evaluates getBaseURL().
Constructs(penv) == GetConfig(Environments(penv), penv) # NoConfig

InitEntry ==
    /\ BuilderIdle /\ RetryIdle /\ MockIdle
    /\ AssertionIdle /\ ConfigIdle /\ FixtureIdle /\ WaiterIdle
    /\ \E screen \in Screens \ {"myinfo"}, penv \in TestEnvs :
          entry = [pc |-> "test", screen |-> screen, env |-> penv,
                   pageObjects |-> 0,
                   entries |-> <<>>, objects |-> <<>>, queues |-> <<>>,
                   cur |-> [kind |-> "none", po |-> 0, plan |-> <<>>],
                   ui |-> <<>>, uses |-> <<>>, error |-> NoError]

UiAct(by, po, act) == [by |-> by, po |-> po, act |-> act]

\* The error with which an awaited driver call of operation by rejected.
EntryError(by, po, act) ==
    [op |-> act, target |-> by, attempt |-> po, why |-> "failed"]

\* static async start(page): new LoginPage(page) / new MyInfoPage(page),
\* then the navigation is awaited.
StartBegin(kind) ==
    /\ entry.pc = "test"
    /\ Len(entry.entries) < MaxEntries
    /\ entry' = IF Constructs(entry.env)
                THEN [entry EXCEPT !.pc = "start", !.pageObjects = @ + 1,
                         !.cur = [kind |-> kind, po |-> entry.pageObjects + 1,
                                  plan |-> StartPlan(kind)]]
                ELSE [entry EXCEPT !.pc = "failed",
                         !.cur = [kind |-> kind, po |-> entry.pageObjects + 1,
                                  plan |-> StartPlan(kind)],
                         !.error = EntryError("start", entry.pageObjects + 1, "new")]
    /\ UNCHANGED notEntry

\* One await of navigateToLogin / navigateToMyInfo settles; after the last
\* one start returns new FluentLoginPage(page, loginPage).
StartStep(out) ==
    /\ entry.pc = "start"
    /\ LET act == Head(entry.cur.plan)
           rest == Tail(entry.cur.plan)
           reachable == act = "waitForLoadState"
                        \/ CanNavigate(entry.cur.kind, entry.screen)
       IN IF out = "ok"
          THEN /\ reachable
               /\ entry' = [entry EXCEPT
                     !.ui = Append(@, UiAct("start", entry.cur.po, act)),
                     !.screen = IF act = "waitForLoadState" THEN @
                                ELSE ScreenOf(entry.cur.kind),
                     !.cur.plan = rest,
                     !.pc = IF rest = <<>> THEN "test" ELSE "start",
                     !.entries = IF rest = <<>>
                                 THEN Append(@, [kind |-> entry.cur.kind,
                                                 how |-> "start",
                                                 po |-> entry.cur.po,
                                                 screenAt |-> ScreenOf(entry.cur.kind),
                                                 uiAt |-> Len(entry.ui) + 1])
                                 ELSE @]
          ELSE entry' = [entry EXCEPT
                     !.pc = "failed",
                     !.error = EntryError("start", entry.cur.po, act)]
    /\ UNCHANGED notEntry

\* UI actions made by fromAuthenticatedPage, form() and assertions().
AccessorEffects(by, po) == <<>>

\* static async fromAuthenticatedPage(page): new LoginPage(page) /
\* new MyInfoPage(page); return new Fluent...Page(page, pageObject).
FromAuthenticatedPage(kind) ==
    /\ entry.pc = "test"
    /\ Len(entry.entries) < MaxEntries
    /\ LET po == entry.pageObjects + 1
       IN IF Constructs(entry.env)
          THEN entry' = [entry EXCEPT
                  !.pageObjects = po,
                  !.ui = @ \o AccessorEffects("fromAuthenticatedPage", po),
                  !.entries = Append(@, [kind |-> kind,
                                         how |-> "fromAuthenticatedPage",
                                         po |-> po, screenAt |-> entry.screen,
                                         uiAt |-> Len(entry.ui)])]
          ELSE entry' = [entry EXCEPT
                  !.pc = "failed",
                  !.error = EntryError("fromAuthenticatedPage", po, "new")]
    /\ UNCHANGED notEntry

\* The page object a component obtained from entry point e is given.
BoundTo(e, count) == e.po

\* The steps array of a new builder: the queue it owns.
OwnQueueShared(queues) == 1

OwnQueue(queues) == Len(queues) + 1

\* form(): return new LoginFormComponent(this.loginPage) /
\* new MyInfoFormComponent(this.myInfoPage), with steps = [].
Form(e) ==
    /\ entry.pc = "test"
    /\ e \in 1..Len(entry.entries)
    /\ Len(entry.objects) < MaxObjects
    /\ LET po == BoundTo(entry.entries[e], entry.pageObjects)
           q == OwnQueue(entry.queues)
       IN entry' = [entry EXCEPT
             !.pageObjects = IF po > @ THEN po ELSE @,
             !.ui = @ \o AccessorEffects("form", po),
             !.queues = IF q > Len(@) THEN Append(@, <<>>) ELSE @,
             !.objects = Append(@, [type |-> "form", from |-> e, po |-> po,
                                    q |-> q, withs |-> 0])]
    /\ UNCHANGED notEntry

\* assertions(): return new LoginAssertions(this.loginPage) /
\* new MyInfoAssertions(this.myInfoPage).
Assertions(e) ==
    /\ entry.pc = "test"
    /\ e \in 1..Len(entry.entries)
    /\ Len(entry.objects) < MaxObjects
    /\ LET po == BoundTo(entry.entries[e], entry.pageObjects)
       IN entry' = [entry EXCEPT
             !.pageObjects = IF po > @ THEN po ELSE @,
             !.ui = @ \o AccessorEffects("assertions", po),
             !.objects = Append(@, [type |-> "assertions", from |-> e, po |-> po,
                                    q |-> 0, withs |-> 0])]
    /\ UNCHANGED notEntry

\* A builder method called on builder o: this.steps.push(...); return this.
WithOn(o) ==
    /\ entry.pc = "test"
    /\ o \in 1..Len(entry.objects)
    /\ entry.objects[o].type = "form"
    /\ entry.objects[o].withs < MaxWith
    /\ entry' = [entry EXCEPT
          !.objects[o].withs = @ + 1,
          !.queues[entry.objects[o].q] = Append(@, [via |-> o])]
    /\ UNCHANGED notEntry

\* A terminal call (submit / save) on builder o or an assertion on
\* assertions object o: its UI actions need the screen the object is for.
Use(o, next) ==
    /\ entry.pc = "test"
    /\ o \in 1..Len(entry.objects)
    /\ Len(entry.uses) < MaxUses
    /\ LET obj == entry.objects[o]
           kind == entry.entries[obj.from].kind
           needs == Needs(kind, obj.type)
           met == entry.screen = needs
           use == [obj |-> o, needs |-> needs, screen |-> entry.screen,
                   uiAt |-> Len(entry.ui),
                   result |-> IF met THEN "returned" ELSE "threw"]
       IN /\ next \in (IF met /\ kind = "login" /\ obj.type = "form"
                       THEN {"login", "dashboard"} ELSE {entry.screen})
          /\ entry' = [entry EXCEPT
                !.uses = Append(@, use),
                !.ui = IF met THEN Append(@, UiAct("use", obj.po, obj.type)) ELSE @,
                !.screen = next,
                !.pc = IF met THEN "test" ELSE "failed",
                !.error = IF met THEN @ ELSE EntryError("use", obj.po, obj.type)]
    /\ UNCHANGED notEntry

NextEntry ==
    \/ \E kind \in EntryKinds : StartBegin(kind)
    \/ \E out \in {"ok", "failed"} : StartStep(out)
    \/ \E kind \in EntryKinds : FromAuthenticatedPage(kind)
    \/ \E e \in 1..MaxEntries : Form(e)
    \/ \E e \in 1..MaxEntries : Assertions(e)
    \/ \E o \in 1..MaxObjects : WithOn(o)
    \/ \E o \in 1..MaxObjects, next \in Screens : Use(o, next)

SpecEntry == InitEntry /\ [][NextEntry]_vars

(***************************************************************************)
(* Properties of the fluent entry points.                                  *)
(***************************************************************************)
EntryRunning == entry.pc # "idle"

Accessors == {"form", "assertions"}

\* C13: form() and assertions() make no UI action and never fail; every
\* builder owns a queue of its own, empty when obtained and holding exactly
\* the steps pushed through that builder; every object obtained from an entry
\* point is bound to that entry point's page object.
C13_AccessorsPure ==
    EntryRunning =>
       /\ \A k \in 1..Len(entry.ui) : entry.ui[k].by \notin Accessors
       /\ entry.error.target \notin Accessors
       /\ \A o \in 1..Len(entry.objects) :
             LET obj == entry.objects[o] IN
             /\ obj.po = entry.entries[obj.from].po
             /\ obj.type = "form" =>
                   /\ obj.q \in 1..Len(entry.queues)
                   /\ Len(entry.queues[obj.q]) = obj.withs
                   /\ \A j \in 1..Len(entry.queues[obj.q]) :
                         entry.queues[obj.q][j].via = o
                   /\ \A o2 \in 1..Len(entry.objects) :
                         (o2 # o /\ entry.objects[o2].type = "form")
                            => entry.objects[o2].q # obj.q

C13_Witness ==
    /\ EntryRunning
    /\ Len(entry.objects) = 2
    /\ entry.objects[1].type = "form" /\ entry.objects[1].withs = 1
    /\ entry.objects[2].type = "form"
    /\ entry.queues[entry.objects[2].q] = <<>>
    /\ entry.objects[2].po = entry.objects[1].po

NavigationOf(kind) == IF kind = "login" THEN "goto" ELSE "click"

\* C14: an entry point returned by start exists only after the navigation and
\* then the load-state wait of that start have completed, in that order; when
\* one of them fails start rejects with its error and returns no entry point.
C14_StartOrder ==
    EntryRunning =>
       /\ \A e \in 1..Len(entry.entries) :
             LET ep == entry.entries[e] IN
             ep.how = "start" =>
                /\ ep.uiAt >= 2 /\ ep.uiAt <= Len(entry.ui)
                /\ entry.ui[ep.uiAt - 1] = UiAct("start", ep.po, NavigationOf(ep.kind))
                /\ entry.ui[ep.uiAt] = UiAct("start", ep.po, "waitForLoadState")
       /\ (entry.pc = "start" \/ (entry.pc = "failed" /\ entry.error.target = "start")) =>
             \A e \in 1..Len(entry.entries) : entry.entries[e].po # entry.cur.po
       /\ (entry.pc = "failed" /\ entry.error.target = "start") =>
             /\ entry.error.op \in {"new", NavigationOf(entry.cur.kind),
                                    "waitForLoadState"}
             /\ entry.error.attempt = entry.cur.po
             /\ \A k \in 1..Len(entry.ui) :
                   entry.ui[k].po = entry.cur.po => entry.ui[k].act # entry.error.op

C14_Witness ==
    /\ EntryRunning
    /\ Len(entry.entries) = 1
    /\ entry.entries[1].how = "start" /\ entry.entries[1].kind = "myinfo"
    /\ entry.screen = "myinfo"
    /\ Len(entry.objects) = 1

\* C15: fromAuthenticatedPage makes no UI action and never fails, in whatever
\* state the browser is; an action made through an object of such an entry
\* point while the screen it needs is not showing is the one that fails.
C15_FailsDownstream ==
    EntryRunning =>
       /\ \A k \in 1..Len(entry.ui) : entry.ui[k].by # "fromAuthenticatedPage"
       /\ entry.error.target # "fromAuthenticatedPage"
       /\ \A e \in 1..Len(entry.entries) :
             entry.entries[e].how = "fromAuthenticatedPage" =>
                \A k \in 1..Len(entry.ui) : entry.ui[k].po = entry.entries[e].po
                                               => entry.ui[k].by = "use"
       /\ \A u \in 1..Len(entry.uses) :
             LET use == entry.uses[u]
                 ep == entry.entries[entry.objects[use.obj].from]
             IN (ep.how = "fromAuthenticatedPage" /\ use.screen # use.needs) =>
                   /\ use.result = "threw"
                   /\ u = Len(entry.uses)
                   /\ entry.pc = "failed"
                   /\ entry.error.target = "use"

(***************************************************************************)
(* Properties of the environment configuration.                            *)
(***************************************************************************)
EnvNames == {"dev", "staging", "production"}

BaseUrlOf(name) ==
    CASE name = "dev" -> "https://opensource-demo.orangehrmlive.com"
      [] name = "staging" -> "https://staging.example.com"
      [] name = "production" -> "https://production.example.com"

LastCall(fn) == config.pc = "loaded" /\ config.out.fn = fn

\* C16: getConfig() returns the development configuration when neither ENV
\* nor NODE_ENV is set, the configuration ENV names when ENV is one of dev,
\* staging, production, and the one NODE_ENV names when only NODE_ENV is set
\* to one of them.
C16_EnvironmentSelection ==
    LastCall("getConfig") =>
       LET e == config.env["ENV"]
           ne == config.env["NODE_ENV"]
           got == config.out.value
       IN /\ (e = Unset /\ ne = Unset) =>
                /\ got # NoConfig
                /\ got.baseURL = BaseUrlOf("dev")
                /\ got.credentials.admin = Credential("Admin", "admin123")
                /\ got.timeout = 30000
          /\ e \in EnvNames => (got # NoConfig /\ got.baseURL = BaseUrlOf(e))
          /\ (e = Unset /\ ne \in EnvNames) =>
                (got # NoConfig /\ got.baseURL = BaseUrlOf(ne))

C16_Witness ==
    /\ LastCall("getConfig")
    /\ config.env["ENV"] = "staging" /\ config.env["NODE_ENV"] = "production"
    /\ config.out.value.baseURL = "https://staging.example.com"

\* The variable that overrides a credential, by the naming of the table.
OverrideVar(name, role, field) ==
    (CASE name = "dev" -> "DEV_" [] name = "staging" -> "STAGING_"
       [] name = "production" -> "PROD_")
    \o (IF role = "admin" THEN "ADMIN_" ELSE "USER_")
    \o (IF field = "username" THEN "USER" ELSE "PASS")

BuiltIn(name, role, field) ==
    CASE name = "production" -> ""
      [] name = "dev" /\ role = "admin" ->
            (IF field = "username" THEN "Admin" ELSE "admin123")
      [] name = "dev" /\ role = "user" ->
            (IF field = "username" THEN "testuser" ELSE "testpass123")
      [] name = "staging" /\ role = "admin" ->
            (IF field = "username" THEN "admin" ELSE "admin123")
      [] name = "staging" /\ role = "user" ->
            (IF field = "username" THEN "user" ELSE "user123")

\* C17: in each of the three environments a credential is the value its
\* override variable had when the configuration was loaded, if it was set,
\* and the built-in default otherwise.
C17_CredentialOverride ==
    (LastCall("getCredentials") /\ GetEnvironment(config.env) \in EnvNames) =>
       \A field \in {"username", "password"} :
          LET name == GetEnvironment(config.env)
              set == config.loadEnv[OverrideVar(name, config.out.arg, field)]
          IN config.out.value[field] =
                IF set # Unset THEN set ELSE BuiltIn(name, config.out.arg, field)

\* C30: for every value of ENV and NODE_ENV, names outside dev, staging and
\* production included, getConfig() returns one of the three defined
\* configurations, and getBaseURL(), getAPIURL() and getCredentials(role)
\* return a value and never fail.
C30_ConfigAlwaysDefined ==
    config.pc = "loaded" =>
       /\ config.out.result # "threw"
       /\ LastCall("getConfig") =>
             \E name \in EnvNames : config.out.value = config.environments[name]

(***************************************************************************)
(* fixtures: the authenticatedPage fixture (with the loginPage fixture it   *)
(* depends on) and the body of the test that uses it.                      *)
(***************************************************************************)
\* The environments a run with fixtures is started in.
FixtureEnvs ==
    {penv \in ProcessEnvs :
        /\ penv["ENV"] \in {Unset, "staging", "test"} /\ penv["NODE_ENV"] = Unset
        /\ \A v \in OverrideVars \ {"STAGING_ADMIN_USER"} : penv[v] = Unset}

Sync(act) == [act |-> act, await |-> FALSE]
Await(act) == [act |-> act, await |-> TRUE]

\* The statements of the loginPage and authenticatedPage fixtures up to
\* use(authenticatedPage), in order.
FixturePlanUseFirst ==
    <<Sync("new LoginPage"), Await("goto"), Await("waitForLoadState"),
      Sync("getCredentials"), Await("fill usernameInput"),
      Await("fill passwordInput"), Await("click loginButton"),
      Await("page.waitForLoadState"), Sync("new BasePage"), Sync("use"),
      Await("page.waitForURL")>>

FixturePlan ==
    <<Sync("new LoginPage"), Await("goto"), Await("waitForLoadState"),
      Sync("getCredentials"), Await("fill usernameInput"),
      Await("fill passwordInput"), Await("click loginButton"),
      Await("page.waitForLoadState"), Await("page.waitForURL"),
      Sync("new BasePage"), Sync("use")>>

InitFixture ==
    /\ BuilderIdle /\ RetryIdle /\ MockIdle
    /\ AssertionIdle /\ EntryIdle /\ ConfigIdle /\ WaiterIdle
    /\ \E penv \in FixtureEnvs :
          fixture = [pc |-> "setup", env |-> penv, plan |-> FixturePlan,
                     log |-> <<>>, screen |-> "blank",
                     credentials |-> Credential("", ""),
                     body |-> "notRun", error |-> NoError]

FixtureError(act) == [op |-> act, target |-> "fixture", attempt |-> 0, why |-> "failed"]

Done(f, act, val) ==
    [f EXCEPT !.log = Append(@, [act |-> act, val |-> val]), !.plan = Tail(@)]

Failed(f, act) == [f EXCEPT !.pc = "failed", !.error = FixtureError(act)]

\* A statement of the fixture that awaits nothing: a constructor,
\* getCredentials('admin'), or the call of use.
FixtureSync ==
    /\ fixture.pc = "setup"
    /\ fixture.plan # <<>> /\ ~Head(fixture.plan).await
    /\ LET act == Head(fixture.plan).act
           cfg == GetConfig(Environments(fixture.env), fixture.env)
       IN fixture' =
             CASE act = "use" ->
                    [Done(fixture, act, "") EXCEPT !.pc = "body", !.body = "running"]
               [] act = "getCredentials" ->
                    IF cfg = NoConfig THEN Failed(fixture, act)
                    ELSE [Done(fixture, act, "admin") EXCEPT
                             !.credentials = cfg.credentials["admin"]]
               [] OTHER ->
                    IF Constructs(fixture.env) THEN Done(fixture, act, "")
                    ELSE Failed(fixture, act)
    /\ UNCHANGED notFixture

\* The value a driver call of the fixture is given.
ValueOf(f, act) ==
    CASE act = "fill usernameInput" -> f.credentials.username
      [] act = "fill passwordInput" -> f.credentials.password
      [] OTHER -> ""

\* An awaited driver call of the fixture settles.  The application decides
\* whether the login leads to the dashboard; page.waitForURL succeeds only
\* there.
FixtureAwait(out, next) ==
    /\ fixture.pc = "setup"
    /\ fixture.plan # <<>> /\ Head(fixture.plan).await
    /\ LET act == Head(fixture.plan).act
       IN /\ next \in (CASE act = "goto" /\ out = "ok" -> {"login"}
                         [] act = "click loginButton" /\ out = "ok" ->
                               {"login", "dashboard"}
                         [] OTHER -> {fixture.screen})
          /\ (act = "page.waitForURL" /\ out = "ok") => fixture.screen = "dashboard"
          /\ fixture' = IF out = "ok"
                        THEN [Done(fixture, act, ValueOf(fixture, act))
                                 EXCEPT !.screen = next]
                        ELSE Failed(fixture, act)
    /\ UNCHANGED notFixture

\* The test body runs between use(...) being called and resolving.
TestBody(out) ==
    /\ fixture.pc = "body"
    /\ fixture' = [fixture EXCEPT !.pc = "teardown", !.body = out]
    /\ UNCHANGED notFixture

\* use(...) resolves and the fixture function returns.
Teardown ==
    /\ fixture.pc = "teardown"
    /\ fixture' = [fixture EXCEPT !.pc = "done"]
    /\ UNCHANGED notFixture

NextFixture ==
    \/ FixtureSync
    \/ \E out \in {"ok", "failed"}, next \in Screens : FixtureAwait(out, next)
    \/ \E out \in {"passed", "failed"} : TestBody(out)
    \/ Teardown

SpecFixture == InitFixture /\ [][NextFixture]_vars

(***************************************************************************)
(* Properties of the authenticatedPage fixture.                            *)
(***************************************************************************)
DriverCalls(log) ==
    SelectSeq(log, LAMBDA x : x.act \notin {"new LoginPage", "getCredentials",
                                             "new BasePage", "use"})

Acts(log) == [k \in 1..Len(log) |-> log[k].act]

\* navigate to the login page, log in, wait for the load state, wait for
\* the dashboard URL
SetupOrder ==
    <<"goto", "waitForLoadState", "fill usernameInput", "fill passwordInput",
      "click loginButton", "page.waitForLoadState", "page.waitForURL">>

\* C19: the test body starts only after the fixture has navigated to the
\* login page, logged in with the admin credentials, waited for the load
\* state and waited for the dashboard URL, all completed in this order; once
\* a step has failed the body is never run.
C19_BodyAfterSetup ==
    fixture.pc # "idle" =>
       /\ IsPrefix(Acts(DriverCalls(fixture.log)), SetupOrder)
       /\ fixture.body # "notRun" =>
             /\ Acts(DriverCalls(fixture.log)) = SetupOrder
             /\ fixture.screen = "dashboard"
             /\ fixture.credentials =
                   GetConfig(Environments(fixture.env), fixture.env).credentials.admin
             /\ DriverCalls(fixture.log)[3].val = fixture.credentials.username
             /\ DriverCalls(fixture.log)[4].val = fixture.credentials.password
       /\ fixture.pc = "failed" =>
             /\ fixture.body = "notRun"
             /\ fixture.error.target = "fixture"
             /\ ~ENABLED NextFixture

C19_Witness ==
    /\ fixture.pc = "body" /\ fixture.body = "running"
    /\ fixture.env["ENV"] = "staging"
    /\ fixture.env["STAGING_ADMIN_USER"] = "secret"
    /\ DriverCalls(fixture.log)[3].val = "secret"

(***************************************************************************)
(* Frame of a terminal call.                                               *)
(***************************************************************************)
\* The inputs some queued action of the builder fills.
QueuedTargets == UNION {TargetsOf(steps[i]) : i \in 1..Len(steps)}

\* C20: an input that no queued action of the builder fills keeps its
\* content and is the target of no fill, clear or click throughout every
\* terminal call, whatever subset of setters was queued, the empty chain
\* included.
C20_OnlyQueuedFields ==
    \A f \in Inputs \ QueuedTargets :
       /\ fields[f] = EmptyFields[f]
       /\ \A k \in 1..Len(trace) : trace[k].target # f

C20_Witness ==
    /\ builder = "login" /\ method = "submit" /\ result = "returned"
    /\ Len(steps) = 1 /\ steps[1].kind = "withPassword"
    /\ fields["passwordInput"] = "a"
    /\ fields["usernameInput"] = ""
    /\ \E k \in 1..Len(trace) : trace[k].target = "loginButton"

(***************************************************************************)
(* Helpers.waitForCondition(condition, timeout, interval): one call.  The  *)
(* clock is Date.now() in milliseconds; an awaited timer of ms             *)
(* milliseconds resolves after at least max(ms, 1) milliseconds.           *)
(***************************************************************************)
MaxTimeout == 3
MaxInterval == 2
MaxLate == 1

\* while (Date.now() - startTime < timeout)
WithinTimeoutInclusive(now, startTime, timeout) == now - startTime <= timeout

WithinTimeout(now, startTime, timeout) == now - startTime < timeout

\* setTimeout(resolve, ms) fires after ms milliseconds, at least one.
TimerDelay(ms) == IF ms < 1 THEN 1 ELSE ms

InitWaiter ==
    /\ BuilderIdle /\ RetryIdle /\ MockIdle
    /\ AssertionIdle /\ EntryIdle /\ ConfigIdle /\ FixtureIdle
    /\ \E timeout \in 0..MaxTimeout, interval \in 0..MaxInterval, t \in {0, 7} :
          waiter = [pc |-> "test", timeout |-> timeout, interval |-> interval,
                    startTime |-> t, now |-> t, log |-> <<>>, result |-> "none"]

\* The test of the while loop; after the loop: return false.
LoopTest ==
    /\ waiter.pc = "test"
    /\ waiter' = IF WithinTimeout(waiter.now, waiter.startTime, waiter.timeout)
                 THEN [waiter EXCEPT !.pc = "condition"]
                 ELSE [waiter EXCEPT !.pc = "returned", !.result = "false"]
    /\ UNCHANGED notWaiter

\* if (await condition()) return true; the condition takes some time and
\* yields true or false, or throws, which rejects the call.
Condition(out, took) ==
    /\ waiter.pc = "condition"
    /\ LET w == [waiter EXCEPT !.now = @ + took,
                               !.log = Append(@, [ev |-> "condition", out |-> out])]
       IN waiter' = CASE out = "true" -> [w EXCEPT !.pc = "returned", !.result = "true"]
                      [] out = "false" -> [w EXCEPT !.pc = "delay"]
                      [] out = "threw" -> [w EXCEPT !.pc = "threw", !.result = "threw"]
    /\ UNCHANGED notWaiter

\* await this.delay(interval)
Delay(late) ==
    /\ waiter.pc = "delay"
    /\ waiter' = [waiter EXCEPT !.pc = "test",
                                !.now = @ + TimerDelay(waiter.interval) + late,
                                !.log = Append(@, [ev |-> "delay", out |-> "none"])]
    /\ UNCHANGED notWaiter

NextWaiter ==
    \/ LoopTest
    \/ \E out \in {"true", "false", "threw"}, took \in 0..MaxLate : Condition(out, took)
    \/ \E late \in 0..MaxLate : Delay(late)

SpecWaiter == InitWaiter /\ [][NextWaiter]_vars

\* The condition and the timer both end.
SpecWaiterFair == SpecWaiter /\ WF_vars(NextWaiter)

WaiterOver == waiter.pc \in {"returned", "threw"}

Evaluations == SelectSeq(waiter.log, LAMBDA x : x.ev = "condition")

\* C25: waitForCondition returns true as soon as an evaluation of the
\* condition yields true and false once the timeout has elapsed with no
\* evaluation yielding true; consecutive evaluations are separated by one
\* pause of the interval; nothing is evaluated after a true result; and the
\* call ends whenever the condition ends.
C25_PollUntilTimeout ==
    /\ <>WaiterOver
    /\ [](/\ \A j \in 1..Len(waiter.log) :
                waiter.log[j].ev = IF j % 2 = 1 THEN "condition" ELSE "delay"
          /\ \A j \in 1..Len(waiter.log) :
                waiter.log[j].out = "true" =>
                   /\ j = Len(waiter.log)
                   /\ waiter.pc = "returned" /\ waiter.result = "true"
          /\ waiter.result = "true" =>
                waiter.log # <<>> /\ waiter.log[Len(waiter.log)].out = "true"
          /\ waiter.result = "false" =>
                /\ waiter.now - waiter.startTime >= waiter.timeout
                /\ \A j \in 1..Len(waiter.log) : waiter.log[j].out # "true"
                /\ waiter.log # <<>> => waiter.log[Len(waiter.log)].ev = "delay"
          /\ Len(Evaluations) <= waiter.timeout
          /\ WaiterOver => ~ENABLED NextWaiter)

\* The condition is false twice, then true.
C25_Witness ==
    /\ waiter.pc = "returned" /\ waiter.result = "true"
    /\ Len(Evaluations) = 3 /\ Len(waiter.log) = 5
    /\ waiter.interval = 1

====
